---- MODULE Spec2Model ----
(***************************************************************************)
(* A model of the haaangry demo backend (src/app/main.py) and of its two   *)
(* Claude client classes (src/app/src/Claude.py, src/app/src/ClaudeClient  *)
(* .py).                                                                   *)
(*                                                                         *)
(* Text.  A Python str is a sequence of units.  A unit is either one       *)
(* structural or whitespace character ("{" "}" "[" "]" "," ":" the double  *)
(* quote, " ", "\n", "\t") or a chunk: a run of other characters that the  *)
(* code never looks inside ("Pasta", "a.com"), or, because the code tests  *)
(* for them as prefixes, the scheme runs "http://", "https://", "ftp://".  *)
(*                                                                         *)
(* JSON values are records tagged by t: "null", "bool", "num", "str",      *)
(* "arr" and "obj"; an object keeps its members in insertion order as a    *)
(* sequence of [k, v] pairs with pairwise distinct keys, like a dict.      *)
(***************************************************************************)
EXTENDS Integers, Sequences, FiniteSets, TLC

----------------------------------------------------------------------------
(* Python str helpers *)

Quote == "\""

Whitespace == {" ", "\n", "\t", "\r"}

Min(S) == CHOOSE x \in S : \A y \in S : x <= y

Max(S) == CHOOSE x \in S : \A y \in S : x >= y

\* str.strip(): drops the leading and trailing whitespace
strip(s) ==
    LET keep == {j \in 1..Len(s) : s[j] \notin Whitespace}
    IN  IF keep = {} THEN <<>> ELSE SubSeq(s, Min(keep), Max(keep))

\* u.startswith(("http://", "https://"))
startswith_http(u) == Len(u) >= 1 /\ u[1] \in {"http://", "https://"}

\* str.find(ch): the first position of ch (1-based), 0 when absent (Python's -1)
find(text, ch) ==
    LET hits == {j \in 1..Len(text) : text[j] = ch}
    IN  IF hits = {} THEN 0 ELSE Min(hits)

\* str.rfind(ch): the last position of ch (1-based), 0 when absent (Python's -1)
rfind(text, ch) ==
    LET hits == {j \in 1..Len(text) : text[j] = ch}
    IN  IF hits = {} THEN 0 ELSE Max(hits)

\* "".join(ch for ch in raw if ch not in [...]): the units of s outside drop
without(s, drop) == SelectSeq(s, LAMBDA u : u \notin drop)

----------------------------------------------------------------------------
(* JSON values *)

JNull == [t |-> "null"]

JBool(b) == [t |-> "bool", b |-> b]

JNum(n) == [t |-> "num", n |-> n]

JStr(s) == [t |-> "str", s |-> s]

JArr(a) == [t |-> "arr", a |-> a]

JObj(o) == [t |-> "obj", o |-> o]

\* the digits the model's texts use, and their values
NumUnits == {"0", "1", "2", "5"}

NumVal(u) == CASE u = "0" -> 0 [] u = "1" -> 1 [] u = "2" -> 2 [] OTHER -> 5

NumUnit(n) == CASE n = 0 -> "0" [] n = 1 -> "1" [] n = 2 -> "2" [] OTHER -> "5"

\* dict membership, dict[k], dict.get(k) (None when absent) and d[k] = v
ObjHas(o, k) == \E j \in 1..Len(o) : o[j].k = k

ObjAt(o, k) == o[CHOOSE j \in 1..Len(o) : o[j].k = k].v

ObjGet(o, k) == IF ObjHas(o, k) THEN ObjAt(o, k) ELSE JNull

ObjPut(o, k, v) ==
    IF ObjHas(o, k)
    THEN [j \in 1..Len(o) |-> IF o[j].k = k THEN [k |-> k, v |-> v] ELSE o[j]]
    ELSE Append(o, [k |-> k, v |-> v])

\* Python's == on parsed JSON: lists by position, dicts by key whatever the order
RECURSIVE JsonEq(_, _)
JsonEq(x, y) ==
    IF x.t # y.t THEN FALSE
    ELSE CASE x.t = "arr" ->
                /\ Len(x.a) = Len(y.a)
                /\ \A j \in 1..Len(x.a) : JsonEq(x.a[j], y.a[j])
           [] x.t = "obj" ->
                /\ Len(x.o) = Len(y.o)
                /\ \A j \in 1..Len(x.o) :
                      /\ ObjHas(y.o, x.o[j].k)
                      /\ JsonEq(x.o[j].v, ObjAt(y.o, x.o[j].k))
           [] OTHER -> x = y

\* bool(v), as Python's `or` chains and `if v` read a parsed JSON value
Truthy(v) ==
    CASE v.t = "null" -> FALSE
      [] v.t = "bool" -> v.b
      [] v.t = "num"  -> v.n # 0
      [] v.t = "str"  -> v.s # <<>>
      [] v.t = "arr"  -> v.a # <<>>
      [] OTHER        -> v.o # <<>>

\* a or b
PyOr(a, b) == IF Truthy(a) THEN a ELSE b

\* repr(v) of a parsed JSON value, and str(v): a str is itself
RECURSIVE PyRepr(_), PyReprElems(_), PyReprItems(_)
PyRepr(v) ==
    CASE v.t = "null" -> <<"None">>
      [] v.t = "bool" -> IF v.b THEN <<"True">> ELSE <<"False">>
      [] v.t = "num"  -> <<NumUnit(v.n)>>
      [] v.t = "str"  -> <<"'">> \o v.s \o <<"'">>
      [] v.t = "arr"  -> <<"[">> \o PyReprElems(v.a) \o <<"]">>
      [] OTHER        -> <<"{">> \o PyReprItems(v.o) \o <<"}">>

PyReprElems(a) ==
    IF a = <<>> THEN <<>>
    ELSE IF Len(a) = 1 THEN PyRepr(a[1])
    ELSE PyRepr(a[1]) \o <<",", " ">> \o PyReprElems(Tail(a))

PyReprItems(o) ==
    IF o = <<>> THEN <<>>
    ELSE LET one == <<"'">> \o o[1].k \o <<"'", ":", " ">> \o PyRepr(o[1].v)
         IN  IF Len(o) = 1 THEN one ELSE one \o <<",", " ">> \o PyReprItems(Tail(o))

PyStr(v) == IF v.t = "str" THEN v.s ELSE PyRepr(v)

----------------------------------------------------------------------------
(* json.loads and json.dumps *)

SkipWs(txt, i) ==
    LET rest == {j \in i..Len(txt) : txt[j] \notin Whitespace}
    IN  IF rest = {} THEN Len(txt) + 1 ELSE Min(rest)

ParseFail == [ok |-> FALSE, v |-> JNull, i |-> 0]

\* a string literal starting at the quote txt[i]: up to the next quote; a raw
\* control character inside it is a JSONDecodeError
ParseString(txt, i) ==
    LET close == {j \in (i + 1)..Len(txt) : txt[j] = Quote}
    IN  IF close = {} THEN ParseFail
        ELSE LET j == Min(close)
                 body == SubSeq(txt, i + 1, j - 1)
             IN  IF \E n \in 1..Len(body) : body[n] \in {"\n", "\t", "\r"}
                 THEN ParseFail
                 ELSE [ok |-> TRUE, v |-> JStr(body), i |-> j + 1]

RECURSIVE ParseValue(_, _), ParseElems(_, _, _), ParseMembers(_, _, _)
ParseValue(txt, i) ==
    IF i > Len(txt) THEN ParseFail
    ELSE CASE txt[i] = "{" ->
                LET j == SkipWs(txt, i + 1)
                IN  IF j <= Len(txt) /\ txt[j] = "}"
                    THEN [ok |-> TRUE, v |-> JObj(<<>>), i |-> j + 1]
                    ELSE ParseMembers(txt, j, <<>>)
           [] txt[i] = "[" ->
                LET j == SkipWs(txt, i + 1)
                IN  IF j <= Len(txt) /\ txt[j] = "]"
                    THEN [ok |-> TRUE, v |-> JArr(<<>>), i |-> j + 1]
                    ELSE ParseElems(txt, j, <<>>)
           [] txt[i] = Quote -> ParseString(txt, i)
           [] txt[i] \in NumUnits ->
                [ok |-> TRUE, v |-> JNum(NumVal(txt[i])), i |-> i + 1]
           [] txt[i] = "null" -> [ok |-> TRUE, v |-> JNull, i |-> i + 1]
           [] txt[i] = "true" -> [ok |-> TRUE, v |-> JBool(TRUE), i |-> i + 1]
           [] txt[i] = "false" -> [ok |-> TRUE, v |-> JBool(FALSE), i |-> i + 1]
           [] OTHER -> ParseFail

\* the elements of an array from position i (a value is due), after acc
ParseElems(txt, i, acc) ==
    LET r == ParseValue(txt, i)
    IN  IF ~r.ok THEN ParseFail
        ELSE LET j == SkipWs(txt, r.i)
             IN  IF j > Len(txt) THEN ParseFail
                 ELSE IF txt[j] = "]"
                 THEN [ok |-> TRUE, v |-> JArr(Append(acc, r.v)), i |-> j + 1]
                 ELSE IF txt[j] = ","
                 THEN ParseElems(txt, SkipWs(txt, j + 1), Append(acc, r.v))
                 ELSE ParseFail

\* the members of an object from position i (a key is due), after acc
ParseMembers(txt, i, acc) ==
    IF i > Len(txt) \/ txt[i] # Quote THEN ParseFail
    ELSE LET k == ParseString(txt, i)
         IN  IF ~k.ok THEN ParseFail
             ELSE LET c == SkipWs(txt, k.i)
                  IN  IF c > Len(txt) \/ txt[c] # ":" THEN ParseFail
                      ELSE LET r == ParseValue(txt, SkipWs(txt, c + 1))
                           IN  IF ~r.ok THEN ParseFail
                               ELSE LET j == SkipWs(txt, r.i)
                                        o == ObjPut(acc, k.v.s, r.v)
                                    IN  IF j > Len(txt) THEN ParseFail
                                        ELSE IF txt[j] = "}"
                                        THEN [ok |-> TRUE, v |-> JObj(o), i |-> j + 1]
                                        ELSE IF txt[j] = ","
                                        THEN ParseMembers(txt, SkipWs(txt, j + 1), o)
                                        ELSE ParseFail

\* a parse r of txt is the whole document when only whitespace follows it
WholeDocument(txt, r) ==
    IF r.ok /\ SkipWs(txt, r.i) = Len(txt) + 1
    THEN [ok |-> TRUE, v |-> r.v]
    ELSE [ok |-> FALSE, v |-> JNull]

\* json.loads(txt): ok = FALSE stands for the JSONDecodeError it raises
json_loads(txt) == WholeDocument(txt, ParseValue(txt, SkipWs(txt, 1)))

\* json.dumps(v, ensure_ascii=False, separators=(",", ":"))
RECURSIVE json_dumps(_), DumpElems(_), DumpMembers(_)
json_dumps(v) ==
    CASE v.t = "null" -> <<"null">>
      [] v.t = "bool" -> IF v.b THEN <<"true">> ELSE <<"false">>
      [] v.t = "num"  -> <<NumUnit(v.n)>>
      [] v.t = "str"  -> <<Quote>> \o v.s \o <<Quote>>
      [] v.t = "arr"  -> <<"[">> \o DumpElems(v.a) \o <<"]">>
      [] OTHER        -> <<"{">> \o DumpMembers(v.o) \o <<"}">>

DumpElems(a) ==
    IF a = <<>> THEN <<>>
    ELSE IF Len(a) = 1 THEN json_dumps(a[1])
    ELSE json_dumps(a[1]) \o <<",">> \o DumpElems(Tail(a))

DumpMembers(o) ==
    IF o = <<>> THEN <<>>
    ELSE LET one == <<Quote>> \o o[1].k \o <<Quote, ":">> \o json_dumps(o[1].v)
         IN  IF Len(o) = 1 THEN one ELSE one \o <<",">> \o DumpMembers(Tail(o))

----------------------------------------------------------------------------
(* ClaudeClient.py: the JSON extractor *)

\* the try of _extract_minified_json on the slice raw, parsed being
\* json.loads(raw)
Minified(raw, parsed) ==
    IF parsed.ok THEN json_dumps(parsed.v)
    ELSE IF strip(without(raw, {"\n", "\r", "\t"})) = <<>> THEN <<"{", "}">>
    ELSE strip(without(raw, {"\n", "\r", "\t"}))

\* a slice that ends at the first "}" after start, the shortest span
first_object_slice(text, start, end) ==
    IF start = 0 \/ end = 0 \/ end < start THEN <<>>
    ELSE SubSeq(text, start, Min({j \in start..end : text[j] = "}"}))

\* the slice text[start : end + 1] between the first "{" and the last "}"
BraceSlice(text, start, end) ==
    IF start = 0 \/ end = 0 \/ end < start THEN <<>> ELSE SubSeq(text, start, end)

\* an extractor that hands the text back when it finds no braces
extract_or_text(text) ==
    IF BraceSlice(text, find(text, "{"), rfind(text, "}")) = <<>>
    THEN text
    ELSE Minified(BraceSlice(text, find(text, "{"), rfind(text, "}")),
                  json_loads(BraceSlice(text, find(text, "{"), rfind(text, "}"))))

\* ClaudeClient._extract_minified_json
extract_minified_json(text) ==
    IF BraceSlice(text, find(text, "{"), rfind(text, "}")) = <<>>
    THEN <<"{", "}">>
    ELSE Minified(BraceSlice(text, find(text, "{"), rfind(text, "}")),
                  json_loads(BraceSlice(text, find(text, "{"), rfind(text, "}"))))

\* ClaudeClient.ask_web_enforce_json, given the text blocks of the model's
\* response: _combine_text joins and strips them, the extractor's output is
\* wrapped in "[" and "]"
ask_web_enforce_json(response_text) ==
    <<"[">> \o extract_minified_json(strip(response_text)) \o <<"]">>

\* ClaudeClient.ask_enforce_json: the same wrapping, no web tools
ask_enforce_json(response_text) ==
    <<"[">> \o extract_minified_json(strip(response_text)) \o <<"]">>

----------------------------------------------------------------------------
(* The client classes.  app/main.py binds CLAUDE to an instance of the     *)
(* class it imports from .src.Claude, or to None when the import or the    *)
(* construction fails.  "ClaudeClient" is the class of ClaudeClient.py,    *)
(* which defines the methods app/main.py calls.                            *)

NoClient == "None"

ClientClasses == {"Claude", "ClaudeClient"}

\* the public methods each class defines
Methods(cls) ==
    CASE cls = "Claude" -> {"ask", "ask_with_web"}
      [] cls = "ClaudeClient" ->
            {"ask", "ask_web", "ask_enforce_json", "ask_web_enforce_json"}
      [] OTHER -> {}

\* the keyword parameters of each class's __init__
InitParams(cls) ==
    CASE cls = "Claude" ->
            {"api_key", "model", "max_tokens", "temperature", "request_timeout",
             "web_fetch_max_chars", "tool_steps"}
      [] cls = "ClaudeClient" ->
            {"model", "json_schema", "api_key", "request_timeout", "max_tokens",
             "temperature"}
      [] OTHER -> {}

\* the class that `from .src.Claude import ClaudeClient` names
ImportedClass == "Claude"

----------------------------------------------------------------------------
(* Optional[str] *)

None == [some |-> FALSE, s |-> <<>>]

Some(s) == [some |-> TRUE, s |-> s]

\* (o or "")
OrEmpty(o) == IF o.some THEN o.s ELSE <<>>

----------------------------------------------------------------------------
(* app/main.py: the recipe links flow *)

\* a lookup without the `break`: the last record whose id is video_id wins
lookup_last(items, video_id) ==
    LET hits == {j \in 1..Len(items) : items[j].id = video_id}
    IN  IF hits = {} THEN [title |-> <<>>, description |-> <<>>]
        ELSE [title |-> items[Max(hits)].title,
              description |-> items[Max(hits)].description]

\* _lookup_title_desc: the first record whose id is video_id, else two ""
lookup_title_desc(items, video_id) ==
    LET hits == {j \in 1..Len(items) : items[j].id = video_id}
    IN  IF hits = {} THEN [title |-> <<>>, description |-> <<>>]
        ELSE [title |-> items[Min(hits)].title,
              description |-> items[Min(hits)].description]

\* _prompt_for_recipes: one prompt, asking for recipe pages ("Avoid spam and
\* video-only pages"); the title and description it carries, "N/A" for ""
prompt_for_recipes(title, description) ==
    [medium |-> "articles",
     title |-> IF title = <<>> THEN <<"N/A">> ELSE title,
     description |-> IF description = <<>> THEN <<"N/A">> ELSE description]

\* a normalizer that appends every record, whatever its title and url
LinkUnchecked(d, u) == <<[title |-> d, url |-> u]>>

\* the link a record gives once its two strs are stripped, or none
LinkIfValid(d, u) ==
    IF d # <<>> /\ u # <<>> /\ startswith_http(u)
    THEN <<[title |-> d, url |-> u]>>
    ELSE <<>>

\* a title read under the upper-case key only
description_upper_only(o) == PyOr(ObjGet(o, <<"DESCRIPTION">>), JStr(<<>>))

\* it.get("DESCRIPTION") or it.get("description") or it.get("Description") or ""
DescriptionOf(o) ==
    PyOr(ObjGet(o, <<"DESCRIPTION">>),
    PyOr(ObjGet(o, <<"description">>),
    PyOr(ObjGet(o, <<"Description">>), JStr(<<>>))))

\* it.get("LINK") or it.get("link") or it.get("Url") or it.get("URL") or ""
LinkOf(o) ==
    PyOr(ObjGet(o, <<"LINK">>),
    PyOr(ObjGet(o, <<"link">>),
    PyOr(ObjGet(o, <<"Url">>),
    PyOr(ObjGet(o, <<"URL">>), JStr(<<>>)))))

\* one record of _coerce_list_payload's loop: the link it appends, or none
CoerceItem(it) ==
    IF it.t # "obj" THEN <<>>
    ELSE LinkIfValid(strip(PyStr(DescriptionOf(it.o))), strip(PyStr(LinkOf(it.o))))

\* one record of the fallback loops (the old title/url shape)
OldShapeItem(it) ==
    IF it.t # "obj" THEN <<>>
    ELSE LinkIfValid(strip(PyStr(PyOr(ObjGet(it.o, <<"title">>), JStr(<<>>)))),
                     strip(PyStr(PyOr(ObjGet(it.o, <<"url">>), JStr(<<>>)))))

RECURSIVE CoerceAll(_), OldShapeAll(_)
CoerceAll(a) == IF a = <<>> THEN <<>> ELSE CoerceItem(Head(a)) \o CoerceAll(Tail(a))

OldShapeAll(a) ==
    IF a = <<>> THEN <<>> ELSE OldShapeItem(Head(a)) \o OldShapeAll(Tail(a))

\* _call_claude._coerce_list_payload
coerce_list_payload(obj) == IF obj.t # "arr" THEN <<>> ELSE CoerceAll(obj.a)

\* links[:3]
MaxLinks == 3

FirstN(s, n) == SubSeq(s, 1, IF Len(s) < n THEN Len(s) ELSE n)

\* a fallback that knows the {"links": [...]} object only
old_shape_object_only(data) ==
    IF data.t = "obj" /\ ObjGet(data.o, <<"links">>).t = "arr"
    THEN OldShapeAll(ObjGet(data.o, <<"links">>).a)
    ELSE <<>>

\* the fallback shapes of _call_claude: {"links": [...]} and a list of
\* title/url records
old_shape_links(data) ==
    IF data.t = "obj" /\ ObjGet(data.o, <<"links">>).t = "arr"
    THEN OldShapeAll(ObjGet(data.o, <<"links">>).a)
    ELSE IF data.t = "arr" THEN OldShapeAll(data.a)
    ELSE <<>>

\* a normalizer without `links = links[:3]`
all_links(data, links) == IF links # <<>> THEN links ELSE old_shape_links(data)

\* `if not links:` the fallback shapes, then links[:3]
FirstLinks(data, links) ==
    FirstN(IF links # <<>> THEN links ELSE old_shape_links(data), MaxLinks)

\* _call_claude from `data = json.loads(txt)` on: the links of a parsed payload
links_of_payload(data) == FirstLinks(data, coerce_list_payload(data))

\* the outcome of one gateway exchange: the provider call raises, or the model
\* answers with text
Raise == [raised |-> TRUE, text |-> <<>>]

Answer(text) == [raised |-> FALSE, text |-> text]

\* what _call_claude returns once the text is in, data being json.loads(txt)
Parsed(data) ==
    IF ~data.ok THEN [links |-> <<>>, called |-> TRUE, raised |-> TRUE]
    ELSE [links |-> links_of_payload(data.v), called |-> TRUE, raised |-> FALSE]

\* _call_claude(prompt), given the client and the outcome of the gateway
\* exchange: the links it returns and whether a gateway call was started.
\* Every exception inside the try (a missing method, a provider error, a
\* JSONDecodeError) ends in {"links": []}.
call_claude(client, outcome) ==
    IF client = NoClient THEN [links |-> <<>>, called |-> FALSE, raised |-> FALSE]
    ELSE IF "ask_web_enforce_json" \notin Methods(client)
    THEN [links |-> <<>>, called |-> FALSE, raised |-> TRUE]
    ELSE IF outcome.raised THEN [links |-> <<>>, called |-> TRUE, raised |-> TRUE]
    ELSE Parsed(json_loads(ask_web_enforce_json(outcome.text)))

\* a query without the `or "N/A"`
query_unfilled(title, desc) ==
    IF desc = <<>> THEN title
    ELSE IF title # <<>> THEN title \o <<" ", "--", " ">> \o desc
    ELSE desc

\* a query that is the title, else the description, else "N/A"
query_title_first(title, desc) ==
    IF title # <<>> THEN title ELSE IF desc # <<>> THEN desc ELSE <<"N/A">>

\* the query of _recipes_core: title, then the dash separator (the unit "--"
\* stands for the em dash) and desc when desc is set
query_of(title, desc) ==
    LET q == IF desc = <<>> THEN title
             ELSE IF title # <<>> THEN title \o <<" ", "--", " ">> \o desc
             ELSE desc
    IN  IF q = <<>> THEN <<"N/A">> ELSE q

\* Link(**it): schemas.Link has exactly the fields title and url
Link(it) == [title |-> it.title, url |-> it.url]

\* RecipeLinksResult(video_id=..., query=..., links=...)
RecipeLinksResult(video_id, query, links) ==
    [video_id |-> video_id, query |-> query, links |-> links]

----------------------------------------------------------------------------
(* app/main.py: the recommendation flow.                                   *)
(* A catalog is a sequence of restaurants [id, name, menu]; a menu is a    *)
(* sequence of [name, price, tags]; ids and names are strs; a price is the *)
(* JSON number dollars.cents with two decimals, [dollars, cents].          *)

\* str.lower() on the chunks the catalogs and titles use
LowerUnit(u) ==
    CASE u = "Spicy" -> "spicy" [] u = "Ramen" -> "ramen" [] u = "Night" -> "night"
      [] u = "Tonkotsu" -> "tonkotsu" [] u = "Gyoza" -> "gyoza"
      [] u = "Birria" -> "birria" [] u = "Tacos" -> "tacos" [] u = "Taco" -> "taco"
      [] u = "Salmon" -> "salmon" [] u = "Nigiri" -> "nigiri"
      [] u = "Rich" -> "rich" [] u = "GYOZA" -> "gyoza" [] u = "Miso" -> "miso"
      [] u = "Soup" -> "soup" [] u = "RAMEN" -> "ramen"
      [] OTHER -> u

lower(s) == [j \in 1..Len(s) |-> LowerUnit(s[j])]

\* set(re.findall(r"[a-zA-Z]+", text)) of a lowercased text whose chunks are
\* words or letterless (whitespace, the dash, digits, punctuation: findall
\* finds nothing in them)
AlphaTokens(text) ==
    {text[j] : j \in {n \in 1..Len(text) :
                        text[n] \notin Whitespace \cup {"--", "6", "(6)", "&", "!"}}}

\* set(n.split()): the whitespace-separated words, each word one chunk
SplitWords(n) == {n[j] : j \in {m \in 1..Len(n) : n[m] \notin Whitespace}}

\* _slug: alphanumerics lowercased, every other character "-", "-" stripped
\* from both ends
slug(s) ==
    LET raw == [j \in 1..Len(s) |-> IF s[j] \in Whitespace THEN "-" ELSE LowerUnit(s[j])]
        keep == {j \in 1..Len(raw) : raw[j] # "-"}
    IN  IF keep = {} THEN <<>> ELSE SubSeq(raw, Min(keep), Max(keep))

\* int(round(float(price) * 100)) of a two-decimal price
price_cents_of(price) == price.dollars * 100 + price.cents

\* int(round(total / n)): Python 3 rounds a tie to the even neighbour
RoundDiv(total, n) ==
    LET q == total \div n
        r == total % n
    IN  IF 2 * r < n THEN q
        ELSE IF 2 * r > n THEN q + 1
        ELSE IF q % 2 = 0 THEN q ELSE q + 1

RECURSIVE SumSeq(_)
SumSeq(s) == IF s = <<>> THEN 0 ELSE Head(s) + SumSeq(Tail(s))

\* _REST_BY_ID of _startup_load_restaurants: the restaurants with a truthy id,
\* by id; of two with one id the later one
rest_by_id(catalog) ==
    LET ids == {catalog[j].id : j \in {n \in 1..Len(catalog) : catalog[n].id # <<>>}}
    IN  [id \in ids |-> catalog[Max({j \in 1..Len(catalog) : catalog[j].id = id})]]

\* the menu entry name_map holds under key: the last one whose stripped,
\* lowercased name is key
NameMapHas(menu, key) == \E j \in 1..Len(menu) : lower(strip(menu[j].name)) = key

NameMapGet(menu, key) ==
    menu[Max({j \in 1..Len(menu) : lower(strip(menu[j].name)) = key})]

\* SCH.MenuItem(...) as _items_to_menu_models builds it from a menu entry
MenuItem(restaurant_id, m) ==
    [id |-> restaurant_id \o <<"::">> \o slug(m.name),
     restaurant_id |-> restaurant_id,
     name |-> m.name,
     price_cents |-> price_cents_of(m.price),
     tags |-> m.tags]

\* key = str(nm or "").strip().lower() of a name nm, any JSON value
name_key(nm) == lower(strip(PyStr(PyOr(nm, JStr(<<>>)))))

\* m = name_map.get(key): the MenuItem appended for key, or none
ItemOfKey(restaurant_id, menu, key) ==
    IF NameMapHas(menu, key)
    THEN <<MenuItem(restaurant_id, NameMapGet(menu, key))>>
    ELSE <<>>

\* the items of _items_to_menu_models, in the order of item_names
RECURSIVE ItemsOfNames(_, _, _)
ItemsOfNames(restaurant_id, menu, item_names) ==
    IF item_names = <<>> THEN <<>>
    ELSE ItemOfKey(restaurant_id, menu, name_key(Head(item_names)))
         \o ItemsOfNames(restaurant_id, menu, Tail(item_names))

\* int(round(sum(cents_list) / len(cents_list))) if cents_list else 0
AvgCents(items) ==
    IF items = <<>> THEN 0 ELSE RoundDiv(SumSeq([j \in 1..Len(items) |-> items[j].price_cents]), Len(items))

WithAvg(out) == [items |-> out, avg_cents |-> AvgCents(out)]

\* (_REST_BY_ID.get(restaurant_id) or {}).get("menu") or []
MenuOf(by_id, restaurant_id) ==
    IF restaurant_id \in DOMAIN by_id THEN by_id[restaurant_id].menu ELSE <<>>

\* _items_to_menu_models(restaurant_id, item_names): (out, avg_cents)
items_to_menu_models(by_id, restaurant_id, item_names) ==
    WithAvg(ItemsOfNames(restaurant_id, MenuOf(by_id, restaurant_id), item_names))

\* the best overlap of _fallback_simple_choice for one restaurant
BestOverlap(tokens, menu) ==
    Max({0} \cup {Cardinality(tokens \cap SplitWords(lower(menu[j].name))) :
                    j \in 1..Len(menu)})

\* sorted(scores, key=lambda x: x[0], reverse=True): the positions of the
\* catalog by falling score; the sort is stable, equal scores keep their order
RECURSIVE SortedByScore(_, _)
SortedByScore(score, left) ==
    IF left = {} THEN <<>>
    ELSE LET top == Max({score[j] : j \in left})
             first == Min({j \in left : score[j] = top})
         IN  <<first>> \o SortedByScore(score, left \ {first})

\* item_names = [m.get("name") for m in menu][:3] of each top id in the index
RECURSIVE FallbackRecs(_, _)
FallbackRecs(top_ids, by_id) ==
    IF top_ids = <<>> THEN <<>>
    ELSE LET rid == Head(top_ids)
             rest == FallbackRecs(Tail(top_ids), by_id)
         IN  IF rid \notin DOMAIN by_id THEN rest
             ELSE <<JObj(<<[k |-> <<"restaurant_id">>, v |-> JStr(rid)],
                           [k |-> <<"item_names">>,
                            v |-> JArr(FirstN([j \in 1..Len(by_id[rid].menu) |->
                                                 JStr(by_id[rid].menu[j].name)],
                                             3))]>>)>> \o rest

\* top_ids: the ids of the first three positions of the sorted scores that
\* are truthy
TopIds(catalog, order) ==
    SelectSeq([j \in 1..Len(order) |-> catalog[order[j]].id], LAMBDA rid : rid # <<>>)

Scores(catalog, tokens) ==
    [j \in 1..Len(catalog) |-> BestOverlap(tokens, catalog[j].menu)]

\* _fallback_simple_choice(title, description, catalog), which also reads the
\* global _REST_BY_ID: {"recommendations": recs[:3]}
fallback_simple_choice(title, description, catalog, by_id) ==
    JObj(<<[k |-> <<"recommendations">>,
            v |-> JArr(FirstN(FallbackRecs(
                     TopIds(catalog,
                            FirstN(SortedByScore(
                                      Scores(catalog,
                                             AlphaTokens(lower(title \o <<" ">>
                                                               \o description))),
                                      1..Len(catalog)), 3)),
                     by_id), 3))]>>)

\* one turn of the back-fill loop for the menu name n, extra_items being what
\* _items_to_menu_models(rid, [n]) returns
BackfillStep(acc, n, extra_items) ==
    IF n = <<>> \/ n \in acc.existing \/ extra_items = <<>> THEN acc
    ELSE [items |-> Append(acc.items, extra_items[1]),
          existing |-> acc.existing \cup {n}]

\* the back-fill loop of recommend_api over the menu, acc = [items, existing]
RECURSIVE Backfill(_, _, _, _)
Backfill(by_id, rid, menu, acc) ==
    IF menu = <<>> \/ Len(acc.items) >= 3 THEN acc.items
    ELSE Backfill(by_id, rid, Tail(menu),
                  BackfillStep(acc, Head(menu).name,
                               items_to_menu_models(by_id, rid,
                                                    <<JStr(Head(menu).name)>>).items))

\* SCH.RestaurantBlock(**kwargs): pydantic requires the five fields of the
\* schema (none has a default), a missing field is a ValidationError
RestaurantBlock(kwargs) ==
    IF {"restaurant_id", "restaurant_name", "menu_url", "items", "avg_price_cents"}
           \subseteq DOMAIN kwargs
    THEN [ok |-> TRUE, block |-> kwargs]
    ELSE [ok |-> FALSE, block |-> kwargs]

\* the keyword arguments of the RestaurantBlock(...) call, lines 552-557
Kwargs(by_id, rid, items, avg_cents) ==
    [restaurant_id |-> rid,
     restaurant_name |-> IF by_id[rid].name # <<>> THEN by_id[rid].name ELSE rid,
     items |-> items,
     avg_price_cents |-> avg_cents]

\* a back-fill that keeps the average of the items resolved first
kept_average(by_id, rid, items, avg_cents) == Kwargs(by_id, rid, items, avg_cents)

\* `if items:` the average is recomputed after the back-fill
Refilled(by_id, rid, items, avg_cents) ==
    Kwargs(by_id, rid, items, IF items # <<>> THEN AvgCents(items) ELSE avg_cents)

\* lines 535-557 given first = _items_to_menu_models(rid, item_names)
BlockFrom(by_id, rid, first) ==
    IF Len(first.items) < 3
    THEN Refilled(by_id, rid,
                  Backfill(by_id, rid, by_id[rid].menu,
                           [items |-> first.items,
                            existing |-> {first.items[j].name :
                                            j \in 1..Len(first.items)}]),
                  first.avg_cents)
    ELSE Kwargs(by_id, rid, first.items, first.avg_cents)

\* the keyword arguments recommend_api passes for one candidate, lines 532-557
block_kwargs(by_id, rid, names) ==
    BlockFrom(by_id, rid, items_to_menu_models(by_id, rid, FirstN(names, 3)))

\* list(x or []) of a JSON value: ok = FALSE is the TypeError of a number or
\* True; a str gives its units, a dict its keys
ListOf(x) ==
    IF ~Truthy(x) THEN [ok |-> TRUE, a |-> <<>>]
    ELSE CASE x.t = "arr" -> [ok |-> TRUE, a |-> x.a]
           [] x.t = "str" -> [ok |-> TRUE, a |-> [j \in 1..Len(x.s) |-> JStr(<<x.s[j]>>)]]
           [] x.t = "obj" -> [ok |-> TRUE, a |-> [j \in 1..Len(x.o) |-> JStr(x.o[j].k)]]
           [] OTHER -> [ok |-> FALSE, a |-> <<>>]

\* one candidate with a dict for rec: "skip" (continue), "raise" (an
\* unhashable id, names that are no list, RestaurantBlock's ValidationError)
\* or "block"
NoBlock(kind) == [kind |-> kind, block |-> <<>>]

Validated(b) == IF b.ok THEN [kind |-> "block", block |-> <<b.block>>] ELSE NoBlock("raise")

Candidate(by_id, rid, names) ==
    IF rid.t \in {"arr", "obj"} THEN NoBlock("raise")
    ELSE IF rid.t # "str" THEN NoBlock("skip")
    ELSE IF rid.s \notin DOMAIN by_id THEN NoBlock("skip")
    ELSE IF ~names.ok THEN NoBlock("raise")
    ELSE Validated(RestaurantBlock(block_kwargs(by_id, rid.s, names.a)))

\* one turn of the loop of recommend_api for the candidate rec; (rec or {})
\* of a truthy rec that is no dict has no get: "raise"
CandidateStep(by_id, rec) ==
    IF ~Truthy(rec) THEN NoBlock("skip")
    ELSE IF rec.t # "obj" THEN NoBlock("raise")
    ELSE Candidate(by_id, ObjGet(rec.o, <<"restaurant_id">>),
                   ListOf(ObjGet(rec.o, <<"item_names">>)))

\* the loop of recommend_api over the candidates: the blocks appended so far,
\* ok = FALSE when an exception leaves the loop
RECURSIVE BuildBlocks(_, _, _), AfterStep(_, _, _, _)
BuildBlocks(by_id, recs, blocks) ==
    IF recs = <<>> THEN [ok |-> TRUE, blocks |-> blocks]
    ELSE AfterStep(by_id, Tail(recs), blocks, CandidateStep(by_id, Head(recs)))

AfterStep(by_id, rest, blocks, step) ==
    IF step.kind = "raise" THEN [ok |-> FALSE, blocks |-> blocks]
    ELSE BuildBlocks(by_id, rest, blocks \o step.block)

\* raw_obj.get("recommendations", [])[:3]; ok = FALSE when the value cannot
\* be sliced or, a non-empty str, holds no dicts
Recommended(o) ==
    IF ~ObjHas(o, <<"recommendations">>) THEN [ok |-> TRUE, a |-> <<>>]
    ELSE IF ObjAt(o, <<"recommendations">>).t = "arr"
    THEN [ok |-> TRUE, a |-> FirstN(ObjAt(o, <<"recommendations">>).a, 3)]
    ELSE IF ObjAt(o, <<"recommendations">>) = JStr(<<>>) THEN [ok |-> TRUE, a |-> <<>>]
    ELSE [ok |-> FALSE, a |-> <<>>]

\* RecommendOut(recommendations=blocks), or the unhandled exception
Responded(built) ==
    IF built.ok THEN [status |-> 200, recommendations |-> built.blocks]
    ELSE [status |-> 500, recommendations |-> <<>>]

\* recommend_api lines 526-566: the response built from raw_obj.  status 200
\* carries RecommendOut(recommendations=blocks); status 500 is the unhandled
\* exception FastAPI answers with
build_response(by_id, raw_obj) ==
    IF ~Recommended(raw_obj.o).ok THEN [status |-> 500, recommendations |-> <<>>]
    ELSE Responded(BuildBlocks(by_id, Recommended(raw_obj.o).a, <<>>))

\* schema_client of recommend_api: _CC is the class imported from .src.Claude,
\* built with json_schema, temperature and max_tokens; a parameter it does
\* not take is a TypeError, caught, and schema_client stays None
schema_client ==
    IF {"json_schema", "temperature", "max_tokens"} \subseteq InitParams(ImportedClass)
    THEN ImportedClass ELSE NoClient

\* the client recommend_api asks: schema_client when it has ask_enforce_json,
\* else CLAUDE
asked_client(client) ==
    IF schema_client # NoClient /\ "ask_enforce_json" \in Methods(schema_client)
    THEN schema_client ELSE client

Fallback(called, raw_obj) == [source |-> "fallback", called |-> called, raw_obj |-> raw_obj]

\* lines 516-518: the parsed text is kept when it is a dict with
\* "recommendations", else the ValueError leads to the fallback
Chosen(data, fallback) ==
    IF data.ok /\ data.v.t = "obj" /\ ObjHas(data.v.o, <<"recommendations">>)
    THEN [source |-> "claude", called |-> TRUE, raw_obj |-> data.v]
    ELSE Fallback(TRUE, fallback)

\* json.loads(txt or "{}")
loads_or_empty(txt) == json_loads(IF txt = <<>> THEN <<"{", "}">> ELSE txt)

\* lines 500-524 given fallback = _fallback_simple_choice(...)
ChooseWith(client, outcome, fallback) ==
    IF client = NoClient THEN Fallback(FALSE, fallback)
    ELSE IF "ask_enforce_json" \notin Methods(asked_client(client))
    THEN Fallback(FALSE, fallback)
    ELSE IF outcome.raised THEN Fallback(TRUE, fallback)
    ELSE Chosen(loads_or_empty(ask_enforce_json(outcome.text)), fallback)

\* recommend_api lines 498-524: the raw choice and where it came from
choose_raw(client, outcome, title, desc, catalog, by_id) ==
    ChooseWith(client, outcome, fallback_simple_choice(title, desc, catalog, by_id))

----------------------------------------------------------------------------
(* The inputs the model draws from *)

\* data/videos.json as load_raw flattens it: the second "v1" is never found
Videos ==
    << [id |-> "v1", title |-> <<"Spicy", " ", "Ramen", " ", "Night">>,
        description |-> <<"Rich", " ", "broth", "\n">>],
       [id |-> "v2", title |-> <<>>, description |-> <<"Birria", " ", "Tacos">>],
       [id |-> "v1", title |-> <<"Salmon", " ", "Nigiri">>, description |-> <<>>] >>

\* a menu entry priced dollars.cents
Dish(name, dollars, cents) ==
    [name |-> name, price |-> [dollars |-> dollars, cents |-> cents], tags |-> <<>>]

\* the catalog of the end-to-end example
RamenCatalog ==
    << [id |-> <<"r1">>, name |-> <<"Ramen", " ", "Cart">>,
        menu |-> << Dish(<<"Spicy", " ", "Tonkotsu", " ", "Ramen">>, 13, 99),
                    Dish(<<"Gyoza">>, 5, 99) >>] >>

\* four restaurants and one record without an id
CityCatalog ==
    << [id |-> <<"r2">>, name |-> <<"Taco", " ", "Truck">>,
        menu |-> << Dish(<<"Birria", " ", "Tacos">>, 12, 99),
                    Dish(<<"Taco">>, 3, 0) >>],
       [id |-> <<>>, name |-> <<"Ghost">>,
        menu |-> << Dish(<<"Spicy", " ", "Ramen", " ", "Night">>, 1, 0) >>],
       [id |-> <<"r1">>, name |-> <<>>,
        menu |-> << Dish(<<"Spicy", " ", "Tonkotsu", " ", "Ramen">>, 13, 99),
                    Dish(<<"Gyoza">>, 5, 99),
                    Dish(<<"Miso", " ", "Soup">>, 4, 50),
                    Dish(<<"GYOZA">>, 6, 0),
                    Dish(<<"Miso", " ", "Ramen">>, 12, 0) >>],
       [id |-> <<"r3">>, name |-> <<"Sushi", " ", "Bar">>,
        menu |-> << Dish(<<"Salmon", " ", "Nigiri">>, 14, 99) >>],
       [id |-> <<"r4">>, name |-> <<"Closed">>, menu |-> <<>>] >>

\* restaurants.json as _load_restaurants_json returns it; <<>> when the file
\* is missing or malformed
Catalogs == {<<>>, RamenCatalog, CityCatalog}

LinkRec(dk, d, uk, u) ==
    JObj(<<[k |-> <<dk>>, v |-> d], [k |-> <<uk>>, v |-> u]>>)

UrlA == JStr(<<"https://", "a.com">>)

UrlB == JStr(<<"http://", "b.com">>)

UrlC == JStr(<<"https://", "c.com">>)

\* a text of the model wrapped in prose, with records that must be dropped
ManyMixed ==
    <<"Here", " ", "you", " ", "go", ":", "\n">> \o
    json_dumps(JArr(<<
        LinkRec("DESCRIPTION", JStr(<<" ", "Pad", " ", "Thai", " ">>),
                "LINK", JStr(<<" ", "https://", "c.com", "\t">>)),
        LinkRec("DESCRIPTION", JStr(<<>>), "LINK", UrlA),
        LinkRec("DESCRIPTION", JStr(<<"Ftp">>), "LINK", JStr(<<"ftp://", "x">>)),
        JNum(5),
        LinkRec("description", JStr(<<"Lower">>), "link", UrlB),
        LinkRec("DESCRIPTION", JStr(<<" ">>), "LINK", UrlB),
        LinkRec("Description", JStr(<<"Cap">>), "URL", UrlA),
        LinkRec("DESCRIPTION", JStr(<<"Fourth">>), "LINK", UrlC)>>)) \o
    <<"\n", "Enjoy", "!">>

NoBraces == <<"Sorry", ",", " ", "nothing", " ", "found">>

\* what the model may answer to the recipes prompt: two records; one record;
\* ManyMixed; the old {"links": [...]} object; a list of title/url records;
\* both shapes mixed; values that are no strs and a relative link; no JSON;
\* braces around no JSON; nothing
RecipeTexts ==
    { json_dumps(JArr(<<LinkRec("DESCRIPTION", JStr(<<"Carbonara">>), "LINK", UrlA),
                        LinkRec("DESCRIPTION", JStr(<<"Ramen">>), "LINK", UrlB)>>)),
      json_dumps(JArr(<<LinkRec("DESCRIPTION", JStr(<<"Solo">>), "LINK", UrlC)>>)),
      ManyMixed,
      json_dumps(JObj(<<[k |-> <<"links">>,
                        v |-> JArr(<<LinkRec("title", JStr(<<"Old">>), "url", UrlA)>>)]>>)),
      json_dumps(JArr(<<LinkRec("title", JStr(<<"Old">>), "url", UrlA),
                        LinkRec("title", JStr(<<>>), "url", UrlB),
                        LinkRec("title", JStr(<<"Rel">>), "url", JStr(<<"/", "r">>))>>)),
      json_dumps(JArr(<<LinkRec("DESCRIPTION", JStr(<<"New">>), "LINK", UrlA),
                        LinkRec("title", JStr(<<"Old">>), "url", UrlB)>>)),
      json_dumps(JArr(<<LinkRec("DESCRIPTION", JNum(5), "LINK", UrlA),
                        LinkRec("DESCRIPTION", JArr(<<JStr(<<"x">>)>>),
                                "LINK", JArr(<<UrlA>>)),
                        LinkRec("DESCRIPTION", JStr(<<"Rel">>),
                                "LINK", JStr(<<"/", "recipes">>))>>)),
      NoBraces,
      <<"{", "oops", "}">>,
      <<>> }

\* what the model would answer to a prompt asking for recipe videos
TwoValidVideos ==
    json_dumps(JArr(<<LinkRec("DESCRIPTION", JStr(<<"Watch">>), "LINK", UrlB),
                      LinkRec("DESCRIPTION", JStr(<<"Clip">>), "LINK", UrlC)>>))

\* GET /recipes: video_id and the optional title and description overrides
RecipeRequests ==
    { [video_id |-> "v1", title |-> None, description |-> None],
      [video_id |-> "v2", title |-> None, description |-> None],
      [video_id |-> "zz", title |-> None, description |-> None],
      [video_id |-> "v1", title |-> Some(<<" ", "Pad", " ", "Thai", " ">>),
       description |-> None],
      [video_id |-> "zz", title |-> Some(<<" ">>), description |-> Some(<<"Noodles">>)],
      [video_id |-> "v1", title |-> Some(<<" ">>), description |-> Some(<<>>)] }

\* what the model may answer to the choice prompt
ChoiceObject ==
    json_dumps(JObj(<<[k |-> <<"recommendations">>,
                      v |-> JArr(<<JObj(<<[k |-> <<"restaurant_id">>, v |-> JStr(<<"r3">>)],
                                          [k |-> <<"item_names">>,
                                           v |-> JArr(<<JStr(<<"Gyoza">>)>>)]>>)>>)]>>))

----------------------------------------------------------------------------
(* State *)

VARIABLES
    CLAUDE,        \* app/main.py CLAUDE: the class of the client, or NoClient
    RAW_ITEMS,     \* app/main.py RAW_ITEMS: the video records
    REST_CATALOG,  \* app/main.py _REST_CATALOG["restaurants"]
    REST_BY_ID,    \* app/main.py _REST_BY_ID
    recipes,       \* the GET /recipes request in progress
    recommend,     \* the POST /recommend request in progress
    aw,            \* Claude.py: the ask_with_web call in progress
    ex,            \* ClaudeClient.py: one application of the JSON extractor
    fn             \* one application of a function of app/main.py to an input

vars == <<CLAUDE, RAW_ITEMS, REST_CATALOG, REST_BY_ID, recipes, recommend, aw, ex, fn>>

RecipesIdle ==
    [pc |-> "idle", video_id |-> "", title_override |-> None, desc_override |-> None,
     title |-> <<>>, desc |-> <<>>,
     prompt |-> <<>>, gateway |-> [articles |-> Raise, videos |-> Raise], calls |-> <<>>, links |-> <<>>,
     result |-> <<>>]

RecommendIdle ==
    [pc |-> "idle", video_id |-> "", title |-> <<>>, desc |-> <<>>,
     source |-> "", called |-> FALSE, raw_obj |-> JNull,
     response |-> [status |-> 0, recommendations |-> <<>>]]

AskIdle ==
    [pc |-> "idle", tool_steps |-> 0, step |-> 0, messages |-> <<>>,
     tool_uses |-> <<>>, tool_results_blocks |-> <<>>, model_calls |-> <<>>,
     executed |-> <<>>, returned |-> <<>>]

ExtractIdle == [pc |-> "idle", lead |-> <<>>, doc |-> <<>>, trail |-> <<>>, out |-> <<>>]

\* the state once both startup hooks have run, for the client classes in cs
Started(cs) ==
    /\ aw = AskIdle
    /\ ex = ExtractIdle
    /\ fn = <<>>
    /\ CLAUDE \in cs
    /\ RAW_ITEMS \in {Videos}
    /\ REST_CATALOG \in Catalogs
    /\ REST_BY_ID = rest_by_id(REST_CATALOG)
    /\ recipes = RecipesIdle
    /\ recommend = RecommendIdle

\* startup(): CLAUDE is an instance of the imported class, or None when the
\* import or the constructor (no ANTHROPIC_API_KEY) fails
Init == Started({NoClient, ImportedClass})

----------------------------------------------------------------------------
(* GET /recipes *)

\* recipes() and _recipes_core lines 270-282: resolve the content, build the prompt
RecipesRequest(req) ==
    /\ recipes.pc = "idle"
    /\ LET t == strip(OrEmpty(req.title))
           d == strip(OrEmpty(req.description))
           meta == lookup_title_desc(RAW_ITEMS, req.video_id)
           title == IF t = <<>> /\ d = <<>> THEN strip(meta.title) ELSE t
           desc == IF t = <<>> /\ d = <<>> THEN strip(meta.description) ELSE d
       IN  recipes' = [RecipesIdle EXCEPT
                          !.pc = "call", !.video_id = req.video_id,
                          !.title_override = req.title,
                          !.desc_override = req.description,
                          !.title = title, !.desc = desc,
                          !.prompt = <<prompt_for_recipes(title, desc)>>]
    /\ UNCHANGED <<CLAUDE, RAW_ITEMS, REST_CATALOG, REST_BY_ID, recommend, aw, ex, fn>>

\* _recipes_core line 283: payload = _call_claude(prompt).  The gateway is what
\* the provider would do with a prompt of each medium; the one prompt built is
\* sent, the call is logged with its end
CallClaude(gateway) ==
    /\ recipes.pc = "call"
    /\ LET prompt == recipes.prompt[1]
           got == call_claude(CLAUDE, gateway[prompt.medium])
       IN  recipes' = [recipes EXCEPT
                          !.pc = "build", !.gateway = gateway,
                          !.links = got.links,
                          !.calls = IF got.called
                                    THEN <<[medium |-> prompt.medium,
                                            raised |-> gateway[prompt.medium].raised]>>
                                    ELSE <<>>]
    /\ UNCHANGED <<CLAUDE, RAW_ITEMS, REST_CATALOG, REST_BY_ID, recommend, aw, ex, fn>>

\* _recipes_core lines 284-291: the result
RecipesReturn ==
    /\ recipes.pc = "build"
    /\ recipes' = [recipes EXCEPT
                      !.pc = "done",
                      !.result = <<RecipeLinksResult(
                                      recipes.video_id,
                                      query_of(recipes.title, recipes.desc),
                                      [j \in 1..Len(recipes.links) |->
                                          Link(recipes.links[j])])>>]
    /\ UNCHANGED <<CLAUDE, RAW_ITEMS, REST_CATALOG, REST_BY_ID, recommend, aw, ex, fn>>

\* the response is serialized and the request's objects are discarded
RecipesRespond ==
    /\ recipes.pc = "done"
    /\ recipes' = RecipesIdle
    /\ UNCHANGED <<CLAUDE, RAW_ITEMS, REST_CATALOG, REST_BY_ID, recommend, aw, ex, fn>>

----------------------------------------------------------------------------
(* POST /recommend *)

\* recommend_api lines 488-496: reject an empty video_id, else look the video up
RecommendRequest(video_id) ==
    /\ recommend.pc = "idle"
    /\ IF video_id = ""
       THEN recommend' = [RecommendIdle EXCEPT
                             !.pc = "done",
                             !.response = [status |-> 400, recommendations |-> <<>>]]
       ELSE LET meta == lookup_title_desc(RAW_ITEMS, video_id)
            IN  recommend' = [RecommendIdle EXCEPT
                                 !.pc = "choose", !.video_id = video_id,
                                 !.title = meta.title, !.desc = meta.description]
    /\ UNCHANGED <<CLAUDE, RAW_ITEMS, REST_CATALOG, REST_BY_ID, recipes, aw, ex, fn>>

\* recommend_api lines 498-524: the raw choice
RecommendChoose(outcome) ==
    /\ recommend.pc = "choose"
    /\ LET got == choose_raw(CLAUDE, outcome, recommend.title, recommend.desc,
                             REST_CATALOG, REST_BY_ID)
       IN  recommend' = [recommend EXCEPT
                            !.pc = "build", !.source = got.source,
                            !.called = got.called, !.raw_obj = got.raw_obj]
    /\ UNCHANGED <<CLAUDE, RAW_ITEMS, REST_CATALOG, REST_BY_ID, recipes, aw, ex, fn>>

\* recommend_api lines 526-566: the typed response
RecommendBuild ==
    /\ recommend.pc = "build"
    /\ recommend' = [recommend EXCEPT
                        !.pc = "done",
                        !.response = build_response(REST_BY_ID, recommend.raw_obj)]
    /\ UNCHANGED <<CLAUDE, RAW_ITEMS, REST_CATALOG, REST_BY_ID, recipes, aw, ex, fn>>

RecommendRespond ==
    /\ recommend.pc = "done"
    /\ recommend' = RecommendIdle
    /\ UNCHANGED <<CLAUDE, RAW_ITEMS, REST_CATALOG, REST_BY_ID, recipes, aw, ex, fn>>

Next ==
    \/ \E req \in RecipeRequests : RecipesRequest(req)
    \/ \E a \in {Raise} \cup {Answer(t) : t \in RecipeTexts},
          v \in {Raise, Answer(TwoValidVideos)} :
          CallClaude([articles |-> a, videos |-> v])
    \/ RecipesReturn
    \/ RecipesRespond
    \/ \E video_id \in {"v1", "v2", "zz", ""} : RecommendRequest(video_id)
    \/ \E outcome \in {Raise, Answer(ChoiceObject), Answer(NoBraces), Answer(<<>>)} :
          RecommendChoose(outcome)
    \/ RecommendBuild
    \/ RecommendRespond

Spec == Init /\ [][Next]_vars

\* the same program with CLAUDE bound to either class named ClaudeClient
SpecAnyClient == Started({NoClient} \cup ClientClasses) /\ [][Next]_vars

----------------------------------------------------------------------------
(* Claude.py: ClaudeClient.ask_with_web, one call of it.  The provider's   *)
(* answer to each messages.create and the fate of each tool's HTTP request *)
(* are the environment's choice.                                           *)

\* the largest tool_steps a client is constructed with here (the default is 4)
MaxToolSteps == 2

TextBlock(text) == [type |-> "text", text |-> text]

ToolUse(id, name) == [type |-> "tool_use", id |-> id, name |-> name]

\* resp.content of a response in round step that asks for names
Content(step, names) ==
    <<TextBlock(<<" ", "Let", " ", "me", " ", "look">>)>> \o
    [j \in 1..Len(names) |-> ToolUse(<<step, j>>, names[j])] \o
    <<TextBlock(<<"\n">>)>>

\* what one messages.create does: an API error, or a response
ApiError == [raised |-> TRUE, content |-> <<>>]

Response(content) == [raised |-> FALSE, content |-> content]

\* a loop that runs once more than tool_steps
in_range_inclusive(step, tool_steps) == step <= tool_steps

\* what a tool-enabled messages.create of round step may do: an error, or a
\* response asking for these tools in order; "calculator" is a tool the
\* client does not have
Responses(step) ==
    {ApiError} \cup
    {Response(Content(step, names)) : names \in
        { <<>>, <<"web_search">>, <<"web_get">>, <<"calculator">>,
          <<"web_search", "web_get">>, <<"web_get", "calculator", "web_search">> }}

\* what the messages.create without tools may do
FinalResponses == {ApiError, Response(<<TextBlock(<<"Final", " ">>)>>)}

\* range(self.tool_steps): the loop body runs while the counter is below it
in_range(step, tool_steps) == step < tool_steps

\* a loop that runs the first tool of a round only
first_tool_use(content) == FirstN(SelectSeq(content, LAMBDA b : b.type = "tool_use"), 1)

\* tool_uses = [b for b in resp.content if b.type == "tool_use"]
tool_uses_of(content) == SelectSeq(content, LAMBDA b : b.type = "tool_use")

\* _combine_text: the text blocks joined, stripped
RECURSIVE JoinText(_)
JoinText(content) ==
    IF content = <<>> THEN <<>>
    ELSE (IF Head(content).type = "text" THEN Head(content).text ELSE <<>>)
         \o JoinText(Tail(content))

combine_text(content) == strip(JoinText(content))

\* a tool loop without the try/except: a failing tool's exception leaves it
run_tool_unguarded(tu, fails) ==
    [raised |-> fails /\ tu.name \in {"web_search", "web_get"},
     block |-> [type |-> "tool_result", tool_use_id |-> tu.id,
                is_error |-> tu.name \notin {"web_search", "web_get"},
                content |-> "payload"]]

\* the try/except around one tool: the tool_result block appended for tu when
\* the tool's work fails (an HTTP error, a timeout, a bad argument) or not;
\* raised = TRUE would be an exception leaving the try
run_tool(tu, fails) ==
    IF tu.name \notin {"web_search", "web_get"}
    THEN [raised |-> FALSE,
          block |-> [type |-> "tool_result", tool_use_id |-> tu.id, is_error |-> TRUE,
                     content |-> "Unknown tool"]]
    ELSE IF fails
    THEN [raised |-> FALSE,
          block |-> [type |-> "tool_result", tool_use_id |-> tu.id, is_error |-> TRUE,
                     content |-> "Tool error"]]
    ELSE [raised |-> FALSE,
          block |-> [type |-> "tool_result", tool_use_id |-> tu.id, is_error |-> FALSE,
                     content |-> "payload"]]

Message(role, content) == [role |-> role, content |-> content]

\* ask_with_web lines 52-91: the tools, the system text, the first message
AskWithWeb(tool_steps) ==
    /\ aw.pc = "idle"
    /\ aw' = [AskIdle EXCEPT
                 !.pc = "loop", !.tool_steps = tool_steps,
                 !.messages = <<Message("user", <<TextBlock(<<"prompt">>)>>)>>]
    /\ UNCHANGED <<CLAUDE, RAW_ITEMS, REST_CATALOG, REST_BY_ID, recipes, recommend, ex, fn>>

\* lines 89-104: one tool-enabled messages.create and what follows it up to
\* the first tool
ToolEnabledCall(resp) ==
    /\ aw.pc = "loop"
    /\ in_range(aw.step, aw.tool_steps)
    /\ LET call == [tools |-> TRUE, raised |-> resp.raised,
                    tool_uses |-> Len(tool_uses_of(resp.content))]
       IN  aw' = IF resp.raised
                 THEN [aw EXCEPT !.pc = "raised",
                                 !.model_calls = Append(@, call)]
                 ELSE IF tool_uses_of(resp.content) = <<>>
                 THEN [aw EXCEPT !.pc = "done",
                                 !.model_calls = Append(@, call),
                                 !.returned = <<combine_text(resp.content)>>]
                 ELSE [aw EXCEPT !.pc = "tools",
                                 !.model_calls = Append(@, call),
                                 !.messages = Append(@, Message("assistant", resp.content)),
                                 !.tool_uses = tool_uses_of(resp.content),
                                 !.tool_results_blocks = <<>>]
    /\ UNCHANGED <<CLAUDE, RAW_ITEMS, REST_CATALOG, REST_BY_ID, recipes, recommend, ex, fn>>

\* lines 108-150: the next tool of the round is executed; after the last one
\* the results go into messages and the loop counter advances
ExecuteTool(fails) ==
    /\ aw.pc = "tools"
    /\ LET tu == aw.tool_uses[Len(aw.tool_results_blocks) + 1]
           ran == run_tool(tu, fails)
           blocks == Append(aw.tool_results_blocks, ran.block)
           log == Append(aw.executed, [id |-> tu.id, name |-> tu.name, failed |-> fails])
       IN  aw' = IF ran.raised
                 THEN [aw EXCEPT !.pc = "raised", !.executed = log]
                 ELSE IF Len(blocks) < Len(aw.tool_uses)
                 THEN [aw EXCEPT !.tool_results_blocks = blocks, !.executed = log]
                 ELSE [aw EXCEPT !.pc = "loop", !.executed = log,
                                 !.tool_results_blocks = blocks,
                                 !.messages = Append(@, Message("user", blocks)),
                                 !.step = @ + 1]
    /\ UNCHANGED <<CLAUDE, RAW_ITEMS, REST_CATALOG, REST_BY_ID, recipes, recommend, ex, fn>>

\* lines 152-160: the loop is exhausted; one messages.create without tools
FinalCall(resp) ==
    /\ aw.pc = "loop"
    /\ ~in_range(aw.step, aw.tool_steps)
    /\ LET call == [tools |-> FALSE, raised |-> resp.raised, tool_uses |-> 0]
       IN  aw' = IF resp.raised
                 THEN [aw EXCEPT !.pc = "raised", !.model_calls = Append(@, call)]
                 ELSE [aw EXCEPT !.pc = "done", !.model_calls = Append(@, call),
                                 !.returned = <<combine_text(resp.content)>>]
    /\ UNCHANGED <<CLAUDE, RAW_ITEMS, REST_CATALOG, REST_BY_ID, recipes, recommend, ex, fn>>

\* the client exists (ANTHROPIC_API_KEY is set) and nothing else runs
InitAskWithWeb ==
    /\ CLAUDE = ImportedClass
    /\ RAW_ITEMS = <<>>
    /\ REST_CATALOG = <<>>
    /\ REST_BY_ID = rest_by_id(REST_CATALOG)
    /\ recipes = RecipesIdle
    /\ recommend = RecommendIdle
    /\ aw = AskIdle
    /\ ex = ExtractIdle
    /\ fn = <<>>

NextAskWithWeb ==
    \/ \E tool_steps \in 0..MaxToolSteps : AskWithWeb(tool_steps)
    \/ \E resp \in Responses(aw.step) : ToolEnabledCall(resp)
    \/ \E fails \in BOOLEAN : ExecuteTool(fails)
    \/ \E resp \in FinalResponses : FinalCall(resp)

\* every step of ask_with_web is a blocking call with a timeout
\* (request_timeout on the client, timeout= on each HTTP request): it is taken
SpecAskWithWeb == InitAskWithWeb /\ [][NextAskWithWeb]_vars /\ WF_vars(NextAskWithWeb)

----------------------------------------------------------------------------
(* ClaudeClient.py: the extractor as a function of the text it is given *)

\* minified JSON arrays and objects
Documents ==
    { json_dumps(v) : v \in
        { JArr(<<>>), JObj(<<>>), JArr(<<JNum(1)>>),
          JArr(<<JStr(<<"a">>), JNull>>),
          JObj(<<[k |-> <<"a">>, v |-> JNum(1)]>>),
          JObj(<<[k |-> <<"a">>, v |-> JArr(<<JNum(1), JNum(2)>>)],
                 [k |-> <<"b">>, v |-> JBool(TRUE)]>>),
          JArr(<<JObj(<<[k |-> <<"a">>, v |-> JNum(1)]>>)>>),
          JArr(<<JObj(<<[k |-> <<"a">>, v |-> JNum(1)]>>),
                 JObj(<<[k |-> <<"b">>, v |-> JStr(<<"x", " ", "y">>)]>>)>>),
          JArr(<<JArr(<<JObj(<<>>)>>), JNum(5)>>) } }

\* text before and after the document that holds no JSON
Leads == { <<>>, <<"Here", " ", "it", " ", "is", "\n">>, <<"json", "\n">>, <<" ">> }

Trails == { <<>>, <<"\n", "Hope", " ", "this", " ", "helps", "!">>, <<"\n">>, <<" ", "Done">> }

\* self._extract_minified_json(text) is applied to lead + doc + trail
Extract ==
    /\ ex.pc = "text"
    /\ ex' = [ex EXCEPT !.pc = "done",
                        !.out = extract_minified_json(ex.lead \o ex.doc \o ex.trail)]
    /\ UNCHANGED <<CLAUDE, RAW_ITEMS, REST_CATALOG, REST_BY_ID, recipes, recommend, aw, fn>>

InitExtract ==
    /\ CLAUDE = "ClaudeClient"
    /\ RAW_ITEMS = <<>>
    /\ REST_CATALOG = <<>>
    /\ REST_BY_ID = rest_by_id(REST_CATALOG)
    /\ recipes = RecipesIdle
    /\ recommend = RecommendIdle
    /\ aw = AskIdle
    /\ fn = <<>>
    /\ ex \in {[pc |-> "text", lead |-> l, doc |-> d, trail |-> t, out |-> <<>>] :
                 l \in Leads, d \in Documents, t \in Trails}

SpecExtract == InitExtract /\ [][Extract]_vars

----------------------------------------------------------------------------
(* app/main.py: one function applied to one input.  fn holds the input and, *)
(* once the function has returned, its result.                              *)

\* the state before the function is applied to one of the inputs
InitFn(inputs) ==
    /\ CLAUDE = "ClaudeClient"
    /\ RAW_ITEMS = <<>>
    /\ REST_CATALOG = <<>>
    /\ REST_BY_ID = rest_by_id(REST_CATALOG)
    /\ recipes = RecipesIdle
    /\ recommend = RecommendIdle
    /\ aw = AskIdle
    /\ ex = ExtractIdle
    /\ fn \in {[pc |-> "input", input |-> i, out |-> <<>>] : i \in inputs}

\* what the model may put between a lead and a trail: nothing, prose, lone
\* or reversed braces, an array of numbers, no JSON in braces, one record,
\* records separated by a comma, by line breaks, by prose, an array of
\* records, an object that is no record before a record
ModelTexts ==
    { l \o b \o t : l \in Leads, t \in Trails, b \in
        { <<>>, NoBraces, <<"{">>, <<"}">>, <<"}", " ", "{">>,
          json_dumps(JArr(<<JNum(1), JNum(2)>>)),
          <<"{", "oops", "}">>,
          json_dumps(LinkRec("DESCRIPTION", JStr(<<"Solo">>), "LINK", UrlC)),
          json_dumps(LinkRec("DESCRIPTION", JStr(<<"Carbonara">>), "LINK", UrlA))
              \o <<",">> \o
              json_dumps(LinkRec("DESCRIPTION", JStr(<<"Ramen">>), "LINK", UrlB)),
          json_dumps(LinkRec("DESCRIPTION", JStr(<<"Carbonara">>), "LINK", UrlA))
              \o <<"\n", ",", "\n", "\t">> \o
              json_dumps(LinkRec("DESCRIPTION", JStr(<<"Ramen">>), "LINK", UrlB)),
          json_dumps(LinkRec("DESCRIPTION", JStr(<<"Carbonara">>), "LINK", UrlA))
              \o <<" ", "and", " ">> \o
              json_dumps(LinkRec("DESCRIPTION", JStr(<<"Ramen">>), "LINK", UrlB)),
          json_dumps(JArr(<<LinkRec("DESCRIPTION", JStr(<<"Carbonara">>), "LINK", UrlA),
                            LinkRec("DESCRIPTION", JStr(<<"Ramen">>), "LINK", UrlB)>>)),
          json_dumps(JObj(<<[k |-> <<"a">>, v |-> JNum(1)]>>))
              \o <<"\n", "or", "\n">> \o
              json_dumps(LinkRec("DESCRIPTION", JStr(<<"Solo">>), "LINK", UrlC)) } }

\* _call_claude with the client of ClaudeClient.py, the gateway exchange
\* ending in the text fn.input
ApplyCallClaude ==
    /\ fn.pc = "input"
    /\ fn' = [fn EXCEPT !.pc = "output",
                        !.out = call_claude("ClaudeClient", Answer(fn.input))]
    /\ UNCHANGED <<CLAUDE, RAW_ITEMS, REST_CATALOG, REST_BY_ID, recipes, recommend, aw, ex>>

SpecCallClaude == InitFn(ModelTexts) /\ [][ApplyCallClaude]_vars

\* the longest list of records a payload holds
MaxRecords == 5

\* what json.loads(txt) may give _call_claude: lists of up to MaxRecords
\* elements (a record of the new shape that is kept once trimmed, one
\* without title, a number, two records of the old shape), and lists of one or two records whose title and url sit
\* under every pair of keys
Payloads ==
    { JArr(a) : a \in UNION { [1..n ->
        { LinkRec("DESCRIPTION", JStr(<<" ", "Pad", " ", "Thai", " ">>),
                  "LINK", JStr(<<" ", "https://", "c.com", "\t">>)),
          LinkRec("Description", JStr(<<>>), "URL", UrlA),
          JNum(5),
          LinkRec("title", JStr(<<"Old">>), "url", UrlA),
          LinkRec("title", JStr(<<"Pad", " ", "Thai">>), "url", UrlB) }] :
        n \in 0..MaxRecords } }
    \cup
    { JArr([j \in 1..Len(ks) |->
              LinkRec(ks[j][1], JStr(<<IF j = 1 THEN "First" ELSE "Second">>),
                      ks[j][2], IF j = 1 THEN UrlA ELSE UrlB)]) :
        ks \in UNION { [1..n ->
            {"title", "DESCRIPTION", "description", "Description", "label"}
                \X {"url", "link", "LINK", "Url", "URL"}] : n \in 1..2 } }

\* _call_claude from `links = _coerce_list_payload(data)` to `links[:3]`,
\* data being the payload fn.input
ApplyNormalize ==
    /\ fn.pc = "input"
    /\ fn' = [fn EXCEPT !.pc = "output", !.out = links_of_payload(fn.input)]
    /\ UNCHANGED <<CLAUDE, RAW_ITEMS, REST_CATALOG, REST_BY_ID, recipes, recommend, aw, ex>>

SpecNormalize == InitFn(Payloads) /\ [][ApplyNormalize]_vars

\* the longest item_names list of a candidate
MaxNames == 3

\* one candidate that raw_obj may name, with the catalog loaded at startup:
\* a restaurant id, in the catalog or not, and up to MaxNames item names
\* (menu names as written, in another case, padded, or unknown)
Candidates ==
    { [catalog |-> c,
       rec |-> JObj(<<[k |-> <<"restaurant_id">>, v |-> JStr(rid)],
                      [k |-> <<"item_names">>, v |-> JArr(names)]>>)] :
        c \in {RamenCatalog, CityCatalog},
        rid \in {<<"r1">>, <<"r2">>, <<"r3">>, <<"r4">>, <<"zz">>},
        names \in UNION { [1..n ->
            { JStr(<<"Gyoza">>), JStr(<<" ", "miso", " ", "soup">>), JStr(<<"Taco">>),
              JStr(<<"Spicy", " ", "Tonkotsu", " ", "Ramen">>), JStr(<<"Nope">>) }] :
            n \in 0..MaxNames } }

\* the keyword arguments of the RestaurantBlock(...) call of one candidate,
\* lines 552-557; none when the loop does not come to the call
call_kwargs(by_id, rid, names) ==
    IF rid.t # "str" THEN <<>>
    ELSE IF rid.s \notin DOMAIN by_id \/ ~names.ok THEN <<>>
    ELSE <<block_kwargs(by_id, rid.s, names.a)>>

\* one turn of the loop of recommend_api for the candidate fn.input.rec:
\* what the turn ends in and the arguments of its RestaurantBlock(...) call
ApplyCandidate ==
    /\ fn.pc = "input"
    /\ fn' = [fn EXCEPT
                 !.pc = "output",
                 !.out = [step |-> CandidateStep(rest_by_id(fn.input.catalog), fn.input.rec),
                          kwargs |-> call_kwargs(
                                        rest_by_id(fn.input.catalog),
                                        ObjGet(fn.input.rec.o, <<"restaurant_id">>),
                                        ListOf(ObjGet(fn.input.rec.o, <<"item_names">>)))]]
    /\ UNCHANGED <<CLAUDE, RAW_ITEMS, REST_CATALOG, REST_BY_ID, recipes, recommend, aw, ex>>

SpecCandidate == InitFn(Candidates) /\ [][ApplyCandidate]_vars

\* the longest list of candidates a raw choice holds
MaxCandidates == 4

\* the raw_obj the loop of recommend_api may be given, with the catalog
\* loaded at startup: up to MaxCandidates candidates, each naming a
\* restaurant that is or is not in the catalog
RawChoices ==
    { [catalog |-> c,
       raw_obj |-> JObj(<<[k |-> <<"recommendations">>, v |-> JArr(recs)]>>)] :
        c \in {RamenCatalog, CityCatalog},
        recs \in UNION { [1..n ->
            { JObj(<<[k |-> <<"restaurant_id">>, v |-> JStr(p[1])],
                     [k |-> <<"item_names">>, v |-> JArr(p[2])]>>) :
                p \in { <<<<"zz">>, <<JStr(<<"Gyoza">>)>>>>,
                        <<<<"r1">>, <<JStr(<<"Gyoza">>)>>>>,
                        <<<<"r3">>, <<JStr(<<"Nope">>)>>>>,
                        <<<<"r4">>, <<>>>> } }] :
            n \in 0..MaxCandidates } }

\* recommend_api lines 526-566 for the raw choice fn.input.raw_obj
ApplyBuildResponse ==
    /\ fn.pc = "input"
    /\ fn' = [fn EXCEPT
                 !.pc = "output",
                 !.out = build_response(rest_by_id(fn.input.catalog), fn.input.raw_obj)]
    /\ UNCHANGED <<CLAUDE, RAW_ITEMS, REST_CATALOG, REST_BY_ID, recipes, recommend, aw, ex>>

SpecBuildResponse == InitFn(RawChoices) /\ [][ApplyBuildResponse]_vars

\* one restaurant record as the choice prompt asks for it
ChoiceRecord ==
    JObj(<<[k |-> <<"restaurant_id">>, v |-> JStr(<<"r3">>)],
           [k |-> <<"item_names">>, v |-> JArr(<<JStr(<<"Salmon", " ", "Nigiri">>)>>)]>>)

\* what the model may answer to the choice prompt: the object the prompt asks
\* for, the same under the key restaurants, a bare array of records, an
\* array around the object, prose, nothing
ChoiceTexts ==
    { ChoiceObject,
      json_dumps(JObj(<<[k |-> <<"restaurants">>, v |-> JArr(<<ChoiceRecord>>)]>>)),
      json_dumps(JArr(<<ChoiceRecord>>)),
      json_dumps(JArr(<<JObj(<<[k |-> <<"restaurants">>, v |-> JArr(<<ChoiceRecord>>)]>>)>>)),
      json_dumps(JArr(<<JObj(<<[k |-> <<"recommendations">>,
                               v |-> JArr(<<ChoiceRecord>>)]>>)>>)),
      NoBraces,
      <<>> }

\* the title and description _lookup_video_meta may return
Contents ==
    { <<<<"Spicy", " ", "Ramen", " ", "Night">>, <<"Rich", " ", "broth", "\n">>>>,
      <<<<>>, <<"Birria", " ", "Tacos">>>>,
      <<<<"Salmon", " ", "Nigiri">>, <<>>>>,
      <<<<"GYOZA", "!", " ", "miso">>, <<"Soup", " ", "&", " ", "taco">>>>,
      <<<<"RAMEN", " ", "6">>, <<"Nigiri", "\n", "Tacos">>>>,
      <<<<>>, <<>>>> }

\* the requests recommend_api chooses for: the client built at startup, the
\* outcome of the gateway exchange, the looked-up content, the catalog (one
\* of Catalogs, or CityCatalog without its record that has no id)
ChoiceInputs ==
    { [client |-> c, outcome |-> o, title |-> t[1], desc |-> t[2], catalog |-> cat] :
        c \in {NoClient} \cup ClientClasses,
        o \in {Raise} \cup {Answer(x) : x \in ChoiceTexts},
        t \in Contents,
        cat \in Catalogs \cup {SelectSeq(CityCatalog, LAMBDA r : r.id # <<>>)} }

\* recommend_api lines 498-524 for the request fn.input
ApplyChoose ==
    /\ fn.pc = "input"
    /\ fn' = [fn EXCEPT
                 !.pc = "output",
                 !.out = choose_raw(fn.input.client, fn.input.outcome, fn.input.title,
                                    fn.input.desc, fn.input.catalog,
                                    rest_by_id(fn.input.catalog))]
    /\ UNCHANGED <<CLAUDE, RAW_ITEMS, REST_CATALOG, REST_BY_ID, recipes, recommend, aw, ex>>

SpecChoose == InitFn(ChoiceInputs) /\ [][ApplyChoose]_vars

\* the most calls of _fallback_simple_choice with the same arguments that are
\* compared
MaxCalls == 2

\* the program serving requests while _fallback_simple_choice is called
\* MaxCalls times for one title and description (of none of the videos) with
\* the loaded catalog
InitFallbackCalls ==
    /\ aw = AskIdle
    /\ ex = ExtractIdle
    /\ CLAUDE = NoClient
    /\ RAW_ITEMS = Videos
    /\ REST_CATALOG = CityCatalog
    /\ REST_BY_ID = rest_by_id(REST_CATALOG)
    /\ recipes = RecipesIdle
    /\ recommend = RecommendIdle
    /\ fn = [pc |-> "input",
             input |-> [title |-> <<"GYOZA", "!", " ", "miso">>,
                        desc |-> <<"Soup", " ", "&", " ", "taco">>],
             out |-> <<>>]

\* a fallback that ranks for the content of the /recommend request in progress
FallbackCallForRequest ==
    /\ fn.pc = "input"
    /\ fn' = [fn EXCEPT
                 !.pc = IF Len(fn.out) + 1 = MaxCalls THEN "output" ELSE "input",
                 !.out = Append(fn.out,
                            [raw_obj |-> fallback_simple_choice(recommend.title, recommend.desc,
                                                                REST_CATALOG, REST_BY_ID),
                             busy |-> recommend.pc # "idle"])]
    /\ UNCHANGED <<CLAUDE, RAW_ITEMS, REST_CATALOG, REST_BY_ID, recipes, recommend, aw, ex>>

\* one call _fallback_simple_choice(title, desc, _REST_CATALOG), which reads
\* the globals _REST_CATALOG and _REST_BY_ID as they are at the call; busy
\* tells whether a /recommend request was being served then
FallbackCall ==
    /\ fn.pc = "input"
    /\ fn' = [fn EXCEPT
                 !.pc = IF Len(fn.out) + 1 = MaxCalls THEN "output" ELSE "input",
                 !.out = Append(fn.out,
                            [raw_obj |-> fallback_simple_choice(fn.input.title, fn.input.desc,
                                                                REST_CATALOG, REST_BY_ID),
                             busy |-> recommend.pc # "idle"])]
    /\ UNCHANGED <<CLAUDE, RAW_ITEMS, REST_CATALOG, REST_BY_ID, recipes, recommend, aw, ex>>

SpecFallbackCalls == InitFallbackCalls /\ [][Next \/ FallbackCall]_vars

----------------------------------------------------------------------------
(* The other request handlers of main.py.  Each is one step: it reads its   *)
(* request and the snapshots and leaves its response in fn.                 *)

\* mock_data._intent_from_text: `"ramen" in t` and the like, on the words of
\* the lowercased text
intent_from_text(text) ==
    LET t == {LowerUnit(text[j]) : j \in 1..Len(text)}
    IN  IF t \cap {"ramen"} # {} THEN "Spicy Ramen"
        ELSE IF t \cap {"taco", "tacos", "birria"} # {} THEN "Birria Tacos"
        ELSE IF t \cap {"sushi", "nigiri"} # {} THEN "Sushi"
        ELSE IF t \cap {"burger", "mcdonald", "qpc"} # {} THEN "Cheeseburger"
        ELSE IF t \cap {"korean"} # {} THEN "Korean Street Food"
        ELSE "Street Food"

\* mock_data.options_for: the intent, the restaurants of the demo catalog in
\* the order chosen for it, the prefilled menu item
options_for(video_id, title) ==
    LET intent == intent_from_text(title)
    IN  [video_id |-> video_id, intent |-> intent,
         top_restaurants |->
            CASE intent = "Spicy Ramen" -> <<"r1", "r3", "r2">>
              [] intent = "Birria Tacos" -> <<"r2", "r1", "r3">>
              [] intent = "Sushi" -> <<"r3", "r1", "r2">>
              [] OTHER -> <<"r1", "r2", "r3">>,
         prefill |->
            CASE intent = "Spicy Ramen" -> "m1"
              [] intent = "Birria Tacos" -> "m3"
              [] intent = "Sushi" -> "m4"
              [] OTHER -> "m5"]

\* data_loader.build_feed: a Video for each record whose downloaded file is
\* in the mounted directory (the records at the positions present), in the
\* order of items
build_feed(items, present) ==
    LET kept == SelectSeq([j \in 1..Len(items) |-> j], LAMBDA j : j \in present)
    IN  [n \in 1..Len(kept) |->
           [id |-> items[kept[n]].id, title |-> items[kept[n]].title,
            description |-> items[kept[n]].description]]

Handled(handler, status, out) == [pc |-> handler, input |-> status, out |-> out]

\* a feed that hands out each record once: what it returns leaves RAW_ITEMS
feed_once(present) ==
    /\ fn' = Handled("feed", 200, build_feed(RAW_ITEMS, present))
    /\ RAW_ITEMS' = build_feed(RAW_ITEMS, (1..Len(RAW_ITEMS)) \ present)
    /\ UNCHANGED <<CLAUDE, REST_CATALOG, REST_BY_ID, recipes, recommend, aw, ex>>

\* GET /feed
feed(present) ==
    /\ fn' = Handled("feed", 200, build_feed(RAW_ITEMS, present))
    /\ UNCHANGED <<CLAUDE, RAW_ITEMS, REST_CATALOG, REST_BY_ID, recipes, recommend, aw, ex>>

\* GET /order/options: the title given, else the title of the first record
\* of RAW_ITEMS with the id
order_options(video_id, title) ==
    /\ fn' = Handled("order_options", 200,
                options_for(video_id,
                            IF OrEmpty(title) # <<>> THEN title.s
                            ELSE lookup_title_desc(RAW_ITEMS, video_id).title))
    /\ UNCHANGED <<CLAUDE, RAW_ITEMS, REST_CATALOG, REST_BY_ID, recipes, recommend, aw, ex>>

\* GET /order/options/{rest}: vid and title parsed from the path; 400
\* without a vid
order_options_compat(vid, title) ==
    /\ fn' = IF vid = ""
             THEN Handled("order_options_compat", 400, <<>>)
             ELSE Handled("order_options_compat", 200,
                     options_for(vid,
                                 IF OrEmpty(title) # <<>> THEN title.s
                                 ELSE lookup_title_desc(RAW_ITEMS, vid).title))
    /\ UNCHANGED <<CLAUDE, RAW_ITEMS, REST_CATALOG, REST_BY_ID, recipes, recommend, aw, ex>>

\* POST /orders: the order of the request body, confirmed
create_order(order) ==
    /\ fn' = Handled("create_order", 200,
                [order EXCEPT !.status = "confirmed", !.eta_minutes = 30])
    /\ UNCHANGED <<CLAUDE, RAW_ITEMS, REST_CATALOG, REST_BY_ID, recipes, recommend, aw, ex>>

\* POST /llm/text
llm_text(user_text, recent_video_id) ==
    /\ fn' = Handled("llm_text", 200,
                LET opts == options_for(IF recent_video_id = "" THEN "demo"
                                        ELSE recent_video_id, user_text)
                IN  [intent |-> opts.intent, top_restaurants |-> opts.top_restaurants])
    /\ UNCHANGED <<CLAUDE, RAW_ITEMS, REST_CATALOG, REST_BY_ID, recipes, recommend, aw, ex>>

\* POST /llm/voice
llm_voice(transcript, recent_video_id) ==
    /\ fn' = Handled("llm_voice", 200,
                LET opts == options_for(IF recent_video_id = "" THEN "demo"
                                        ELSE recent_video_id, transcript)
                IN  [intent |-> opts.intent, top_restaurants |-> opts.top_restaurants])
    /\ UNCHANGED <<CLAUDE, RAW_ITEMS, REST_CATALOG, REST_BY_ID, recipes, recommend, aw, ex>>

\* GET /profile: config.PROFILE
profile ==
    /\ fn' = Handled("profile", 200,
                [user_id |-> "u1", name |-> "Alex", credits_balance_cents |-> 3000])
    /\ UNCHANGED <<CLAUDE, RAW_ITEMS, REST_CATALOG, REST_BY_ID, recipes, recommend, aw, ex>>

\* GET /orders/history
orders_history ==
    /\ fn' = Handled("orders_history", 200, [orders |-> <<>>])
    /\ UNCHANGED <<CLAUDE, RAW_ITEMS, REST_CATALOG, REST_BY_ID, recipes, recommend, aw, ex>>

\* POST /confirm
confirm_api(restaurant_id, item) ==
    /\ fn' = Handled("confirm_api", 200,
                [status |-> "ok",
                 selection |-> [restaurant_id |-> restaurant_id, item |-> item]])
    /\ UNCHANGED <<CLAUDE, RAW_ITEMS, REST_CATALOG, REST_BY_ID, recipes, recommend, aw, ex>>

\* FastAPI's answer to a request without the required video_id: the handler
\* is not entered
Unprocessable == [status |-> 422]

\* a request that carries no video_id at all
NoVideoId == [some |-> FALSE, s |-> ""]

\* GET /recipes with video_id: str = Query(...): a video_id that is given,
\* empty or not, enters _recipes_core
recipes_route(video_id, title, description) ==
    IF ~video_id.some
    THEN /\ recipes.pc = "idle"
         /\ recipes' = [RecipesIdle EXCEPT !.pc = "done", !.result = <<Unprocessable>>]
         /\ UNCHANGED <<CLAUDE, RAW_ITEMS, REST_CATALOG, REST_BY_ID, recommend, aw, ex, fn>>
    ELSE RecipesRequest([video_id |-> video_id.s, title |-> title,
                         description |-> description])

\* GET /recipes/{rest}: parse_qs leaves a blank video_id out, `if not vid`
\* is the 400
recipes_compat(vid, title, description) ==
    IF ~vid.some \/ vid.s = ""
    THEN /\ recipes.pc = "idle"
         /\ recipes' = [RecipesIdle EXCEPT !.pc = "done", !.result = <<[status |-> 400]>>]
         /\ UNCHANGED <<CLAUDE, RAW_ITEMS, REST_CATALOG, REST_BY_ID, recommend, aw, ex, fn>>
    ELSE RecipesRequest([video_id |-> vid.s, title |-> title, description |-> description])

\* POST /recommend with body: SCH.RecommendIn, whose video_id is required
recommend_route(video_id) ==
    IF ~video_id.some
    THEN /\ recommend.pc = "idle"
         /\ recommend' = [RecommendIdle EXCEPT
                             !.pc = "done",
                             !.response = [status |-> 422, recommendations |-> <<>>]]
         /\ UNCHANGED <<CLAUDE, RAW_ITEMS, REST_CATALOG, REST_BY_ID, recipes, aw, ex, fn>>
    ELSE RecommendRequest(video_id.s)

\* every handler of the application, the requests of /recipes and /recommend
\* being served step by step between the others
Handlers ==
    \/ Next
    \/ \E video_id \in {NoVideoId, Some(""), Some("v2")},
          title \in {None, Some(<<"Salmon", " ", "Nigiri">>)} :
          recipes_route(video_id, title, None)
    \/ \E vid \in {NoVideoId, Some(""), Some("v2")} : recipes_compat(vid, None, None)
    \/ \E video_id \in {NoVideoId, Some(""), Some("v2")} : recommend_route(video_id)
    \/ \E present \in {{}, {2, 3}} : feed(present)
    \/ \E title \in {None, Some(<<"Salmon", " ", "Nigiri">>)} : order_options("v2", title)
    \/ \E vid \in {"", "v1"} : order_options_compat(vid, None)
    \/ create_order([id |-> "o1", restaurant_id |-> "r1", status |-> "new", eta_minutes |-> 0])
    \/ llm_text(<<"Korean", " ", "burger">>, "")
    \/ llm_voice(<<"Birria", " ", "Tacos">>, "v2")
    \/ profile
    \/ orders_history
    \/ confirm_api("r1", [menu_item_id |-> "m1", quantity |-> 1])

\* the application after startup, no client configured
InitHandlers ==
    /\ aw = AskIdle
    /\ ex = ExtractIdle
    /\ fn = Handled("idle", 0, <<>>)
    /\ CLAUDE = NoClient
    /\ RAW_ITEMS = Videos
    /\ REST_CATALOG = CityCatalog
    /\ REST_BY_ID = rest_by_id(REST_CATALOG)
    /\ recipes = RecipesIdle
    /\ recommend = RecommendIdle

SpecHandlers == InitHandlers /\ [][Handlers]_vars

----------------------------------------------------------------------------
(* Properties *)

\* the links of the result of the GET /recipes request, once it is built
ResultLinks == IF recipes.result = <<>> THEN <<>> ELSE recipes.result[1].links

HasKind(link, kind) == "kind" \in DOMAIN link /\ link.kind = kind

\* C1: fan-out isolation.  When the articles call throws and the videos call
\* returns text with two valid records, the result holds exactly those two
\* links, tagged video, in their order, and no article link.
C1_FanOutIsolation ==
    (/\ recipes.pc = "done"
     /\ "ask_web_enforce_json" \in Methods(CLAUDE)
     /\ recipes.gateway.articles.raised
     /\ recipes.gateway.videos = Answer(TwoValidVideos))
    => /\ Len(ResultLinks) = 2
       /\ \A j \in 1..2 : HasKind(ResultLinks[j], "video")
       /\ [j \in 1..2 |-> [title |-> ResultLinks[j].title, url |-> ResultLinks[j].url]]
             = call_claude("ClaudeClient", Answer(TwoValidVideos)).links

\* C2: join-both.  Every invocation starts exactly two gateway calls, one for
\* articles and one for videos, and the result is produced only after both
\* have ended.
C2_JoinBoth ==
    (recipes.pc = "done" /\ "ask_web_enforce_json" \in Methods(CLAUDE))
    => /\ Len(recipes.calls) = 2
       /\ {recipes.calls[j].medium : j \in 1..Len(recipes.calls)} = {"articles", "videos"}

C4_LinksValid ==
    \A j \in 1..Len(ResultLinks) :
        /\ ResultLinks[j].title # <<>>
        /\ startswith_http(ResultLinks[j].url)

\* a result is returned whose three links come from a text that also holds
\* records with an empty title, an ftp url, a blank title and a number
C4_Witness ==
    /\ recipes.pc = "done"
    /\ recipes.gateway.articles = Answer(ManyMixed)
    /\ Len(ResultLinks) = 3

\* C5: with a non-empty video_id, GET /recipes returns a RecipeLinksResult
\* and POST /recommend returns a RecommendOut (status 200) for every gateway
\* state and every catalog, also when a restaurant block is built.
C5_NoUnhandledException ==
    /\ recipes.pc = "done" => Len(recipes.result) = 1
    /\ (recommend.pc = "done" /\ recommend.video_id # "")
          => recommend.response.status = 200

\* C6: in POST /recommend, when the gateway is unavailable, raises or fails
\* validation, the raw choice is exactly the fallback ranker's output for the
\* looked-up title and description and the loaded catalog, and the request
\* is not failed.
C6_FallbackUsed ==
    (recommend.pc \in {"build", "done"} /\ recommend.video_id # ""
        /\ recommend.source = "fallback")
    => /\ recommend.raw_obj = fallback_simple_choice(recommend.title, recommend.desc,
                                                     REST_CATALOG, REST_BY_ID)
       /\ recommend.pc = "done" => recommend.response.status = 200

\* the gateway of the GET /recipes request failed: no client, a client
\* without the method, or a call that raised
GatewayFailed ==
    \/ CLAUDE = NoClient
    \/ "ask_web_enforce_json" \notin Methods(CLAUDE)
    \/ (recipes.calls # <<>> /\ recipes.calls[1].raised)

\* C7: in GET /recipes, when the gateway is not configured or its call
\* raises, no link is contributed and the request still returns a
\* RecipeLinksResult with the request's video_id and a non-empty query.
C7_GatewayFailureAbsorbed ==
    (recipes.pc = "done" /\ GatewayFailed)
    => /\ Len(recipes.result) = 1
       /\ recipes.result[1].links = <<>>
       /\ recipes.result[1].video_id = recipes.video_id
       /\ recipes.result[1].query # <<>>

\* the call of a client that has the method raised, for a video that is not
\* in the feed, and the result is returned with the query "N/A"
C7_Witness ==
    /\ recipes.pc = "done"
    /\ CLAUDE = "ClaudeClient"
    /\ recipes.calls # <<>> /\ recipes.calls[1].raised
    /\ recipes.title = <<>> /\ recipes.desc = <<>>
    /\ recipes.result[1].query = <<"N/A">>

ToolEnabled == SelectSeq(aw.model_calls, LAMBDA c : c.tools)

ToolFree == SelectSeq(aw.model_calls, LAMBDA c : ~c.tools)

\* a tool-enabled call that came back without a tool request
CameBack == SelectSeq(aw.model_calls, LAMBDA c : c.tools /\ ~c.raised /\ c.tool_uses = 0)

CallBudget ==
    /\ Len(ToolEnabled) <= aw.tool_steps
    /\ Len(ToolFree) <= 1
    /\ Len(aw.model_calls) <= aw.tool_steps + 1
    /\ ToolFree # <<>> =>
          /\ Len(ToolEnabled) = aw.tool_steps
          /\ CameBack = <<>>
          /\ ~aw.model_calls[Len(aw.model_calls)].tools
    /\ (aw.pc = "done" /\ CameBack = <<>>) =>
          /\ Len(ToolFree) = 1
          /\ aw.returned = <<<<"Final">>>>

\* C8: ask_with_web issues at most tool_steps tool-enabled model calls; if
\* none came back without a tool request it issues exactly one more call,
\* without tools, and returns its text; the exchange ends after at most
\* tool_steps + 1 model calls, whatever the model does.
C8_BoundedToolLoop ==
    /\ []CallBudget
    /\ (aw.pc = "loop") ~> (aw.pc \in {"done", "raised"})

\* the model asked for a tool in every round and the final call answered
C8_Witness ==
    /\ aw.pc = "done"
    /\ aw.tool_steps = MaxToolSteps
    /\ Len(ToolEnabled) = MaxToolSteps
    /\ Len(ToolFree) = 1

\* the tool_result blocks sent or collected so far, in order
RECURSIVE ResultsIn(_)
ResultsIn(messages) ==
    IF messages = <<>> THEN <<>>
    ELSE (IF Head(messages).role = "user" /\ Head(messages).content # <<>>
             /\ Head(messages).content[1].type = "tool_result"
          THEN Head(messages).content ELSE <<>>)
         \o ResultsIn(Tail(messages))

AllResults ==
    ResultsIn(aw.messages) \o (IF aw.pc = "tools" THEN aw.tool_results_blocks ELSE <<>>)

\* the tool_use blocks of message j, answered by message j + 1
Answered(j) ==
    LET asked == tool_uses_of(aw.messages[j].content)
        answers == aw.messages[j + 1].content
    IN  /\ aw.messages[j + 1].role = "user"
        /\ Len(answers) = Len(asked)
        /\ \A n \in 1..Len(asked) : answers[n].tool_use_id = asked[n].id

ToolFailuresReported ==
    /\ Len(AllResults) = Len(aw.executed)
    /\ \A j \in 1..Len(aw.executed) :
          /\ AllResults[j].tool_use_id = aw.executed[j].id
          /\ AllResults[j].is_error =
                (aw.executed[j].failed
                    \/ aw.executed[j].name \notin {"web_search", "web_get"})
    /\ \A j \in 1..Len(aw.messages) :
          (aw.messages[j].role = "assistant" /\ (aw.pc # "tools" \/ j < Len(aw.messages)))
             => Answered(j)
    /\ aw.pc = "raised" => aw.model_calls[Len(aw.model_calls)].raised

\* C9: a tool that fails (web_search, web_get, or an unknown name) is answered
\* with a tool_result marked is_error; the other tool calls of the round are
\* still executed and answered; the loop goes on to the next model call; no
\* tool failure ends ask_with_web.
C9_ToolFailureContained ==
    /\ []ToolFailuresReported
    /\ [][aw.pc = "tools" =>
            \/ aw'.pc = "tools" /\ Len(aw'.tool_results_blocks) = Len(aw.tool_results_blocks) + 1
            \/ aw'.pc = "loop" /\ aw'.step = aw.step + 1]_vars

\* web_get failed, the unknown tool and web_search of the same round were
\* answered after it, and a later model call returned
C9_Witness ==
    /\ aw.pc = "done"
    /\ \E j \in 1..Len(aw.executed) :
          /\ aw.executed[j].failed
          /\ aw.executed[j].name = "web_get"
          /\ j + 2 <= Len(aw.executed)
          /\ aw.executed[j + 2].id[1] = aw.executed[j].id[1]
          /\ ~AllResults[j + 2].is_error
    /\ Len(aw.model_calls) >= 2

\* C10: extractor round trip.  For a minified JSON array or object J between
\* leading and trailing text without JSON, the extractor's output parses to a
\* value equal to the parse of J.
C10_ExtractorRoundTrip ==
    ex.pc = "done"
    => /\ json_loads(ex.out).ok
       /\ JsonEq(json_loads(ex.out).v, json_loads(ex.doc).v)

\* the slice of text from its first unit in opening to its last unit in
\* closing, empty when there is no such pair
FirstToLast(text, opening, closing) ==
    LET os == {j \in 1..Len(text) : text[j] \in opening}
        cs == {j \in 1..Len(text) : text[j] \in closing}
    IN  IF os = {} \/ cs = {} THEN <<>>
        ELSE IF Max(cs) < Min(os) THEN <<>>
        ELSE SubSeq(text, Min(os), Max(cs))

\* C11: when the model's text is empty or holds no opening brace followed
\* by a closing brace (so no bracket pair of any kind, or square brackets
\* only), the chain of extraction, parsing and normalisation returns no
\* link and no exception is raised inside _call_claude
C11_NoBracketPair ==
    (fn.pc = "output" /\ FirstToLast(fn.input, {"{"}, {"}"}) = <<>>)
        => (fn.out.links = <<>> /\ ~fn.out.raised)

\* prose without any bracket has been through the chain
C11_Witness ==
    /\ fn.pc = "output"
    /\ fn.input # <<>>
    /\ FirstToLast(fn.input, {"{", "["}, {"}", "]"}) = <<>>
    /\ fn.out.links = <<>>
    /\ ~fn.out.raised

Unreadable(span) ==
    /\ span # <<>>
    /\ ~json_loads(span).ok
    /\ ~json_loads(<<"[">> \o without(span, {"\n", "\r", "\t"}) \o <<"]">>).ok

StrUnder(rec, k) ==
    IF rec.t = "obj" /\ ObjGet(rec.o, <<k>>).t = "str" THEN ObjGet(rec.o, <<k>>).s
    ELSE <<>>

\* a record that is already normalized: title and url only, a trimmed
\* non-empty title, a trimmed http(s) url
Normalized(rec) ==
    /\ rec.t = "obj"
    /\ {rec.o[j].k : j \in 1..Len(rec.o)} = {<<"title">>, <<"url">>}
    /\ StrUnder(rec, "title") # <<>>
    /\ strip(StrUnder(rec, "title")) = StrUnder(rec, "title")
    /\ strip(StrUnder(rec, "url")) = StrUnder(rec, "url")
    /\ startswith_http(StrUnder(rec, "url"))

\* C13: normalizing a list of at most 3 already normalized {title, url}
\* records returns the same records in the same order
C13_Idempotent ==
    (/\ fn.pc = "output"
     /\ Len(fn.input.a) <= 3
     /\ \A j \in 1..Len(fn.input.a) : Normalized(fn.input.a[j]))
        => /\ Len(fn.out) = Len(fn.input.a)
           /\ \A j \in 1..Len(fn.out) :
                 fn.out[j] = [title |-> StrUnder(fn.input.a[j], "title"),
                              url |-> StrUnder(fn.input.a[j], "url")]

\* three normalized records, not all the same, came back unchanged
C13_Witness ==
    /\ fn.pc = "output"
    /\ Len(fn.input.a) = 3
    /\ \A j \in 1..3 : Normalized(fn.input.a[j])
    /\ fn.input.a[1] # fn.input.a[2]
    /\ Len(fn.out) = 3
    /\ \A j \in 1..3 : fn.out[j].title = StrUnder(fn.input.a[j], "title")

\* the record holds a title under tk and a URL under uk that pass the keep
\* test: both non-empty after trimming, the URL http(s)
Supplies(rec, tk, uk) ==
    /\ strip(StrUnder(rec, tk)) # <<>>
    /\ startswith_http(strip(StrUnder(rec, uk)))

\* the link of that record is in the normalizer's output
Keeps(rec, tk, uk) ==
    \E j \in 1..Len(fn.out) :
        fn.out[j] = [title |-> strip(StrUnder(rec, tk)), url |-> strip(StrUnder(rec, uk))]

RECURSIVE KeptUnder(_, _, _)
KeptUnder(a, tks, uks) ==
    IF a = <<>> THEN <<>>
    ELSE (IF \E tk \in tks, uk \in uks : Supplies(Head(a), tk, uk)
          THEN LET p == CHOOSE p \in tks \X uks : Supplies(Head(a), p[1], p[2])
               IN  <<[title |-> strip(StrUnder(Head(a), p[1])),
                      url |-> strip(StrUnder(Head(a), p[2]))]>>
          ELSE <<>>)
         \o KeptUnder(Tail(a), tks, uks)

Occurrences(links, url) == Cardinality({j \in 1..Len(links) : links[j].url = url})

\* what one path gives: the normalized links of the text the gateway returns
\* for the medium
PathLinks(medium) == call_claude("ClaudeClient", recipes.gateway[medium]).links

Matching == {j \in 1..Len(RAW_ITEMS) : RAW_ITEMS[j].id = recipes.video_id}

Restaurant == rest_by_id(fn.input.catalog)[ObjGet(fn.input.rec.o, <<"restaurant_id">>).s]

Named == ObjGet(fn.input.rec.o, <<"item_names">>).a

\* the positions of the menu whose name is the given one ignoring case and
\* surrounding whitespace
Resolving(name) ==
    {j \in 1..Len(Restaurant.menu) : lower(strip(Restaurant.menu[j].name)) = lower(strip(name))}

\* the first two positions of the menu other than j, in catalog order
NextTwo(j) ==
    LET others == {n \in 1..Len(Restaurant.menu) : n # j}
    IN  <<Min(others), Min(others \ {Min(others)})>>

\* C19: back-fill.  For a catalog restaurant with 5 menu items and a choice
\* naming exactly 1 item, which resolves to one menu entry, the turn gives a
\* RestaurantBlock of exactly 3 items: the resolved entry, then the first two
\* other menu entries in catalog order, with avg_price_cents the rounded mean
\* of the 3 prices.
C19_BackFill ==
    (/\ fn.pc = "output"
     /\ ObjGet(fn.input.rec.o, <<"restaurant_id">>).s \in DOMAIN rest_by_id(fn.input.catalog)
     /\ Len(Restaurant.menu) = 5
     /\ Len(Named) = 1
     /\ Cardinality(Resolving(Named[1].s)) = 1)
    => /\ fn.out.step.kind = "block"
       /\ LET j == CHOOSE j \in Resolving(Named[1].s) : TRUE
               want == <<j>> \o NextTwo(j)
               block == fn.out.step.block[1]
           IN  /\ Len(block.items) = 3
               /\ \A n \in 1..3 : block.items[n].name = Restaurant.menu[want[n]].name
               /\ \A n \in 1..3 :
                     block.items[n].price_cents = price_cents_of(Restaurant.menu[want[n]].price)
               /\ 2 * (3 * block.avg_price_cents
                         - SumSeq([n \in 1..3 |-> block.items[n].price_cents])) \in -3..3

\* the sum of the price_cents of a sequence of items
TotalCents(items) == SumSeq([n \in 1..Len(items) |-> items[n].price_cents])

\* C20: in every RestaurantBlock(...) call recommend_api makes, with or
\* without back-fill, avg_price_cents is the arithmetic mean of the items'
\* price_cents rounded to a nearest integer (at most one half away from the
\* mean), and 0 when there are no items
C20_AvgIsRoundedMean ==
    (fn.pc = "output" /\ fn.out.kwargs # <<>>)
    => /\ fn.out.kwargs[1].items = <<>> => fn.out.kwargs[1].avg_price_cents = 0
       /\ 2 * (Len(fn.out.kwargs[1].items) * fn.out.kwargs[1].avg_price_cents
                 - TotalCents(fn.out.kwargs[1].items))
             \in -Len(fn.out.kwargs[1].items)..Len(fn.out.kwargs[1].items)

\* one named item resolved, the back-fill added the only other menu entry,
\* and the mean of the two prices, 799.5, was rounded to 800
C20_Witness ==
    /\ fn.pc = "output"
    /\ fn.out.kwargs # <<>>
    /\ Len(Named) = 1
    /\ Len(fn.out.kwargs[1].items) = 2
    /\ TotalCents(fn.out.kwargs[1].items) = 1599
    /\ fn.out.kwargs[1].avg_price_cents = 800

\* the first 3 candidates of the raw choice, and those of them whose
\* restaurant is in the loaded catalog
FirstCandidates == FirstN(ObjGet(fn.input.raw_obj.o, <<"recommendations">>).a, 3)

Known ==
    SelectSeq(FirstCandidates,
              LAMBDA rec : ObjGet(rec.o, <<"restaurant_id">>).s
                             \in DOMAIN rest_by_id(fn.input.catalog))

\* C21: for every raw choice the loop ends in a RecommendOut of at most 3
\* blocks, each for a restaurant of the loaded catalog and with at most 3
\* items; a candidate whose restaurant is not in the catalog is dropped
\* without an error and the other candidates still give their blocks, one
\* per candidate of the catalog, in the order of the choice.
C21_BlocksFromCatalog ==
    fn.pc = "output"
    => /\ fn.out.status = 200
       /\ Len(fn.out.recommendations) <= 3
       /\ \A j \in 1..Len(fn.out.recommendations) :
             /\ fn.out.recommendations[j].restaurant_id \in DOMAIN rest_by_id(fn.input.catalog)
             /\ Len(fn.out.recommendations[j].items) <= 3
       /\ Len(fn.out.recommendations) = Len(Known)
       /\ \A j \in 1..Len(Known) :
             fn.out.recommendations[j].restaurant_id
               = ObjGet(Known[j].o, <<"restaurant_id">>).s

\* the restaurant records of a parsed answer under the three shapes: an
\* object with a restaurants key, a bare array of records, a singleton
\* array around an object with a restaurants key; no records otherwise
RecordsUnder(data) ==
    IF ~data.ok THEN <<>>
    ELSE IF data.v.t = "obj" /\ ObjGet(data.v.o, <<"restaurants">>).t = "arr"
    THEN ObjGet(data.v.o, <<"restaurants">>).a
    ELSE IF data.v.t = "arr" /\ Len(data.v.a) = 1 /\ data.v.a[1].t = "obj"
            /\ ObjGet(data.v.a[1].o, <<"restaurants">>).t = "arr"
    THEN ObjGet(data.v.a[1].o, <<"restaurants">>).a
    ELSE IF data.v.t = "arr"
            /\ \A j \in 1..Len(data.v.a) :
                  data.v.a[j].t = "obj" /\ ObjHas(data.v.a[j].o, <<"restaurant_id">>)
    THEN data.v.a
    ELSE <<>>

\* C22: when a client that has ask_enforce_json answers the choice prompt,
\* the candidates the response is built from are the restaurant records of
\* the answer when it is an object with a restaurants key, a bare array of
\* records or a singleton array around such an object, and no candidates
\* for any other answer.
C22_TolerantShapes ==
    (fn.pc = "output" /\ "ask_enforce_json" \in Methods(fn.input.client)
        /\ ~fn.input.outcome.raised)
    => ObjGet(fn.out.raw_obj.o, <<"recommendations">>)
         = JArr(RecordsUnder(json_loads(fn.input.outcome.text)))

\* the positions of the catalog records that carry an id, by falling score
RankedWithId(catalog, tokens) ==
    SelectSeq(SortedByScore(Scores(catalog, tokens), 1..Len(catalog)),
              LAMBDA j : catalog[j].id # <<>>)

\* the names of the first three menu entries
FirstNames(menu) == FirstN([j \in 1..Len(menu) |-> JStr(menu[j].name)], 3)

\* C23: the fallback's choice holds the 3 restaurants of the catalog with the
\* highest scores (all of them when there are fewer), by falling score and
\* in catalog order among equal scores, each with the names of its first 3
\* menu items, the score being the best overlap of the lowercase alphabetic
\* tokens of title and description with the words of a menu item's name.
C23_TopThreeByScore ==
    (fn.pc = "output" /\ fn.out.source = "fallback")
    => LET catalog == fn.input.catalog
           top == FirstN(RankedWithId(catalog,
                            AlphaTokens(lower(fn.input.title \o <<" ">> \o fn.input.desc))), 3)
       IN  ObjGet(fn.out.raw_obj.o, <<"recommendations">>)
             = JArr([j \in 1..Len(top) |->
                       JObj(<<[k |-> <<"restaurant_id">>, v |-> JStr(catalog[top[j]].id)],
                              [k |-> <<"item_names">>,
                               v |-> JArr(FirstNames(catalog[top[j]].menu))]>>)])

C25_FallbackExample ==
    (recommend.pc = "done" /\ recommend.video_id = "v1" /\ CLAUDE = NoClient
        /\ REST_CATALOG = RamenCatalog)
    => /\ recommend.response.status = 200
       /\ \E j \in 1..Len(recommend.response.recommendations) :
             LET block == recommend.response.recommendations[j]
             IN  /\ block.restaurant_id = <<"r1">>
                 /\ [n \in 1..Len(block.items) |-> block.items[n].name]
                      = <<<<"Spicy", " ", "Tonkotsu", " ", "Ramen">>, <<"Gyoza">>>>
                 /\ block.avg_price_cents = 999

\* C26: no step of any request handler, in any interleaving, changes
\* RAW_ITEMS, _REST_CATALOG or _REST_BY_ID, or a record they hold.
C26_SnapshotsUnchanged ==
    [][UNCHANGED <<RAW_ITEMS, REST_CATALOG, REST_BY_ID>>]_vars

\* /recommend has built blocks from the catalog, /recipes has looked a video
\* up, and another handler has answered from the snapshot of the videos
C26_Witness ==
    /\ recommend.pc = "done" /\ recommend.video_id = "v2"
    /\ recipes.pc = "done" /\ recipes.title # <<>>
    /\ fn.pc = "feed" /\ Len(fn.out) = 2
    /\ RAW_ITEMS = Videos /\ REST_CATALOG = CityCatalog

\* a client error is what the caller of /recipes got
Rejected(result) ==
    /\ Len(result) = 1
    /\ "status" \in DOMAIN result[1]
    /\ result[1].status \in 400..499

\* C27: a request to /recipes or /recommend whose video_id is missing or
\* empty is answered with a client error, with no step of the handler beyond
\* the rejection and no gateway call.
C27_MissingIdRejected ==
    /\ (recipes.pc # "idle" /\ recipes.video_id = "")
          => (recipes.pc = "done" /\ Rejected(recipes.result) /\ recipes.calls = <<>>)
    /\ (recommend.pc # "idle" /\ recommend.video_id = "")
          => (recommend.pc = "done" /\ recommend.response.status \in 400..499
                /\ ~recommend.called)

\* the text the gateway returns for the prompt of the request, parsed
AnswerOfModel == json_loads(recipes.gateway[recipes.prompt[1].medium].text)

\* C28: when the client created at startup is configured and the model's
\* text for the request is a JSON array of k >= 1 records that each hold a
\* non-empty title and an http(s) URL, the operation _call_claude calls is one
\* the client provides and the result holds the first min(k, 3) of the
\* records as links, in the model's order.
C28_SuccessPath ==
    (/\ recipes.pc = "done"
     /\ recipes.video_id # ""
     /\ CLAUDE # NoClient
     /\ ~recipes.gateway[recipes.prompt[1].medium].raised
     /\ AnswerOfModel.ok
     /\ AnswerOfModel.v.t = "arr"
     /\ AnswerOfModel.v.a # <<>>
     /\ \A j \in 1..Len(AnswerOfModel.v.a) :
           Supplies(AnswerOfModel.v.a[j], "DESCRIPTION", "LINK"))
    => /\ "ask_web_enforce_json" \in Methods(CLAUDE)
       /\ [j \in 1..Len(ResultLinks) |->
             [title |-> ResultLinks[j].title, url |-> ResultLinks[j].url]]
            = FirstN(KeptUnder(AnswerOfModel.v.a, {"DESCRIPTION"}, {"LINK"}), 3)

\* the ids of the tool_use blocks of a turn, in the order of the blocks
RequestedIds(content) ==
    LET asked == SelectSeq(content, LAMBDA b : b.type = "tool_use")
    IN  [n \in 1..Len(asked) |-> asked[n].id]

\* the conversation so far: the user prompt, then assistant turns that ask
\* for tools, each followed by a user turn of exactly its tool_results
Paired ==
    /\ aw.pc # "idle" =>
          /\ aw.messages # <<>>
          /\ aw.messages[1] = [role |-> "user", content |-> <<TextBlock(<<"prompt">>)>>]
    /\ \A j \in 2..Len(aw.messages) :
          aw.messages[j].role = IF j % 2 = 0 THEN "assistant" ELSE "user"
    /\ \A j \in 2..Len(aw.messages) :
          aw.messages[j].role = "assistant" =>
             /\ RequestedIds(aw.messages[j].content) # <<>>
             /\ j = Len(aw.messages) => aw.pc = "tools"
             /\ j < Len(aw.messages) =>
                   /\ \A n \in 1..Len(aw.messages[j + 1].content) :
                         aw.messages[j + 1].content[n].type = "tool_result"
                   /\ [n \in 1..Len(aw.messages[j + 1].content) |->
                          aw.messages[j + 1].content[n].tool_use_id]
                        = RequestedIds(aw.messages[j].content)

\* C29: in ask_with_web the conversation starts with the user prompt and
\* then alternates assistant turns that request tools and user turns; the
\* user turn after a request holds exactly one tool_result for each tool_use
\* of the request, with its id, in the order requested; every request is
\* followed by that user turn before the model is called again.
C29_ToolResultPairing ==
    /\ []Paired
    /\ (aw.pc = "tools") ~> (aw.pc = "loop" /\ aw.messages[Len(aw.messages)].role = "user")

\* two rounds were answered, the first asking for three tools, the second
\* for two, and the final call returned
C29_Witness ==
    /\ aw.pc = "done"
    /\ Len(aw.messages) = 5
    /\ Len(RequestedIds(aw.messages[2].content)) = 3
    /\ Len(aw.messages[3].content) = 3
    /\ Len(aw.messages[5].content) = 2

\* C30: in every RestaurantBlock(...) call recommend_api makes, whatever the
\* item names of the choice (repeated, in another case, padded), the items are
\* pairwise distinct menu items and the restaurant_id of each is the block's.
C30_DistinctItemsOfBlock ==
    (fn.pc = "output" /\ fn.out.kwargs # <<>>)
    => LET block == fn.out.kwargs[1]
       IN  /\ \A a, b \in 1..Len(block.items) : a # b => block.items[a] # block.items[b]
           /\ \A n \in 1..Len(block.items) :
                 block.items[n].restaurant_id = block.restaurant_id

====
